---- MODULE Spec2Model ----
(***************************************************************************)
(* A model of the command layer of aider (LuisGoCity fork):                *)
(*   - the in-chat file sets and /add, /drop, /reset   (aider/commands.py) *)
(*   - the plan/step workflow /code-from-plan           (aider/commands.py) *)
(*   - PlanCoder.identify_affected_files          (aider/coders/plan_coder) *)
(*   - /commit and /undo over a small git repository    (aider/repo.py)     *)
(*   - Commands.run, /save, /load, /solve-jira, /clean-code                *)
(*   - GitRepo.commit, raise_pr, get_tracked_files, ignored_file           *)
(* Strings that the code inspects character by character (paths, command   *)
(* arguments, the model's step-count reply) are sequences of one-character  *)
(* strings, so that substring tests, splitting and int() are computed.      *)
(***************************************************************************)
EXTENDS Integers, Sequences, FiniteSets, TLC

VARIABLES
    \* ---- chat state held by the coder and by Commands
    abs_fnames,                 \* coder.abs_fnames: editable files (absolute paths)
    abs_read_only_fnames,       \* coder.abs_read_only_fnames
    original_read_only_fnames,  \* Commands.original_read_only_fnames
    done_messages,              \* coder.done_messages
    cur_messages,               \* coder.cur_messages
    disk,                       \* absolute paths of the files that exist
    tracked,                    \* repo-relative names git tracks (path_in_repo)
    has_repo,                   \* coder.repo is not None
    confirm_ask,                \* io.confirm_ask: "ask" (interactive) or "auto"
    \* ---- cmd_code_from_plan
    pc,                         \* position inside cmd_code_from_plan
    plan_path,                  \* the stripped argument
    reply,                      \* number_of_steps_worker.partial_response_content
    step_count,
    step_i,                     \* loop variable i of the first loop
    step_j,                     \* loop variable j of the retry loop
    switch_coder,               \* the switch_coder parameter
    original_confirm_ask,       \* _AutoConfirmContext.original_confirm_ask
    events,                     \* sessions started and io.tool_output lines, in order
    last_session,               \* how the most recent editing session ended, what it added
    \* ---- PlanCoder.identify_affected_files
    apc,                        \* position inside identify_affected_files
    areply,                     \* self.partial_response_content after the count question
    num_steps,
    step_num,
    all_identified_files,       \* the dict under construction: step number -> files
    discovered,                 \* per discovery session: what it was asked, what it found
    warnings,                   \* number of io.tool_warning calls
    aresult,                    \* the value returned
    \* ---- the git repository and the session's record of its own commits
    commits,                    \* the commits made so far; a commit's hash is its index
    head,                       \* the commit HEAD (the active branch) points at
    index,                      \* the git index: file -> content
    worktree,                   \* the working tree: file -> content
    origin_head,                \* the commit origin/<branch> points at, 0 when it does not exist
    aider_commit_hashes,        \* coder.aider_commit_hashes
    last_cmd,                   \* the command that ran last, and how it ended
    before_cmd,                 \* the repository as that command found it
    \* ---- /save and /load
    session_file,               \* the file /save writes: whether it exists, its lines
    round_trip,                 \* how far a /save, /reset, /load sequence has come
    \* ---- cmd_solve_jira
    jpc,                        \* position inside cmd_solve_jira
    jira_call,                  \* its arguments as typed and as parsed
    jira_events,                \* the calls it has made, in order
    \* ---- GitRepo.commit and the environment of the process
    os_environ,                 \* os.environ: GIT_COMMITTER_NAME and GIT_AUTHOR_NAME
    attribution,                \* self.attribute_author, self.attribute_committer
    cpc,                        \* position inside GitRepo.commit
    commit_call,                \* the call's aider_edits, its locals, the environment it found
    last_commit,                \* the names git recorded in the commit made last
    \* ---- GitRepo.raise_pr
    prpc,                       \* position inside GitRepo.raise_pr
    pr_runs,                    \* the commands run and how they ended, over all calls
    pr_calls,                   \* how many calls there were
    pr_result,                  \* how the last call ended
    \* ---- GitRepo.get_tracked_files
    tree_files,                 \* self.tree_files: commit -> set of files
    ignored,                    \* the files the aiderignore file excludes
    tracked_files,              \* the last answer, and the repository it was given for
    \* ---- cmd_clean_code
    clean_pc,                   \* position inside cmd_clean_code
    code_files,                 \* the modified code files the loop has still to visit
    clean_events,               \* per file: skipped, how its session ended, errors reported
    \* ---- Commands.run and the loop of cmd_load
    run_pc,                     \* position inside Commands.run / cmd_load
    load_file,                  \* the lines of the file /load was given
    load_lines,                 \* the lines the loop has still to visit
    run_log,                    \* every input Commands.run was given, and what came of it
    \* ---- GitRepo.ignored_file and the aiderignore file
    now,                        \* time.time(), in seconds
    aiderignore,                \* the file: whether it exists, its mtime, the files it names
    aider_ignore_last_check,    \* self.aider_ignore_last_check
    aider_ignore_ts,            \* self.aider_ignore_ts
    aider_ignore_spec,          \* self.aider_ignore_spec: the files the loaded lines match
    ignore_file_cache,          \* self.ignore_file_cache: file -> result
    ignored_answer              \* the last call of ignored_file: what it returned, what
                                \* ignored_file_raw gives for the file as it was then

chatVars == <<abs_fnames, abs_read_only_fnames, original_read_only_fnames,
              done_messages, cur_messages, disk, tracked, has_repo, confirm_ask>>
planVars == <<pc, plan_path, reply, step_count, step_i, step_j, switch_coder,
              original_confirm_ask, events, last_session>>
affVars  == <<apc, areply, num_steps, step_num, all_identified_files, discovered,
              warnings, aresult>>
repoVars == <<commits, head, index, worktree, origin_head, aider_commit_hashes>>
gitVars  == <<commits, head, index, worktree, origin_head, aider_commit_hashes,
              last_cmd, before_cmd>>
sessVars == <<session_file, round_trip>>
jiraVars == <<jpc, jira_call, jira_events>>
envVars  == <<os_environ, attribution, cpc, commit_call, last_commit>>
prVars   == <<prpc, pr_runs, pr_calls, pr_result>>
trkVars  == <<tree_files, ignored, tracked_files>>
cleanVars == <<clean_pc, code_files, clean_events>>
runVars == <<run_pc, load_file, load_lines, run_log>>
ignVars == <<now, aiderignore, aider_ignore_last_check, aider_ignore_ts, aider_ignore_spec,
             ignore_file_cache, ignored_answer>>
moreVars == <<cleanVars, runVars, ignVars>>
otherVars == <<jiraVars, envVars, prVars, trkVars, moreVars>>
restVars == <<sessVars, otherVars>>

-----------------------------------------------------------------------------
(* Bounds *)

MaxSteps == 3          \* largest step count the model's reply may name
MaxChatFiles == 2      \* how many files beside the plan a session may add
MaxCommits == 2        \* how many commits the repository may come to hold
MaxRuns == 2           \* how many inputs are typed at the prompt
MaxTime == 4           \* the last second of the clock
MaxWrites == 2         \* how many times the aiderignore file is written

-----------------------------------------------------------------------------
(* Characters, strings and paths *)

\* The characters that occur, in ASCII order (used by sorted()).
Alphabet == <<" ", "+", "-", ".", "/", "0", "1", "2", "3", "4", "5", "6", "7", "8", "9",
              "a", "b", "d", "p", "q", "r", "x">>

Rank(c) == CHOOSE k \in 1..Len(Alphabet) : Alphabet[k] = c

DigitChars == <<"0", "1", "2", "3", "4", "5", "6", "7", "8", "9">>

IsDigit(c) == \E k \in 1..Len(DigitChars) : DigitChars[k] = c

DigitValue(c) == (CHOOSE k \in 1..Len(DigitChars) : DigitChars[k] = c) - 1

\* Python's `word in f` on strings.
IsSubstr(w, s) ==
    \E k \in 0..(Len(s) - Len(w)) : \A m \in 1..Len(w) : s[k + m] = w[m]

StartsWith(s, pre) ==
    /\ Len(pre) <= Len(s)
    /\ \A m \in 1..Len(pre) : s[m] = pre[m]

RECURSIVE LStrip(_)
LStrip(s) == IF s # <<>> /\ Head(s) = " " THEN LStrip(Tail(s)) ELSE s

RECURSIVE RStrip(_)
RStrip(s) == IF s # <<>> /\ s[Len(s)] = " " THEN RStrip(SubSeq(s, 1, Len(s) - 1)) ELSE s

\* str.strip()
Strip(s) == RStrip(LStrip(s))

\* lexicographic order of Python strings
RECURSIVE StrLess(_, _)
StrLess(s, t) ==
    IF t = <<>> THEN FALSE
    ELSE IF s = <<>> THEN TRUE
    ELSE IF Head(s) # Head(t) THEN Rank(Head(s)) < Rank(Head(t))
    ELSE StrLess(Tail(s), Tail(t))

\* sorted(set_of_strings)
RECURSIVE Sorted(_)
Sorted(S) ==
    IF S = {} THEN <<>>
    ELSE LET m == CHOOSE x \in S : \A y \in S \ {x} : StrLess(x, y)
         IN <<m>> \o Sorted(S \ {m})

\* " ".join(list_of_strings)
RECURSIVE Join(_)
Join(ws) ==
    IF ws = <<>> THEN <<>>
    ELSE IF Len(ws) = 1 THEN ws[1]
    ELSE ws[1] \o <<" ">> \o Join(Tail(ws))

\* parse_quoted_filenames: re.findall(r"\"(.+?)\"|(\S+)", args).  The alphabet has
\* no double quote, so only the second alternative matches: the maximal runs of
\* non-blank characters, in order.
RECURSIVE SplitWords(_, _)
SplitWords(s, cur) ==
    IF s = <<>> THEN (IF cur = <<>> THEN <<>> ELSE <<cur>>)
    ELSE IF Head(s) = " "
         THEN (IF cur = <<>> THEN <<>> ELSE <<cur>>) \o SplitWords(Tail(s), <<>>)
         ELSE SplitWords(Tail(s), cur \o <<Head(s)>>)

parse_quoted_filenames(args) == SplitWords(args, <<>>)

\* coder.root, with its trailing separator
Root == <<"/", "r", "/">>

IsAbsolute(p) == p # <<>> /\ Head(p) = "/"

\* coder.abs_root_path(path): Path(root) / path keeps an absolute path as it is.
abs_root_path(p) ==
    IF IsAbsolute(p) THEN p
    ELSE IF StartsWith(p, <<".", ".", "/">>) THEN SubSeq(p, 3, Len(p))
    ELSE Root \o p

\* coder.get_rel_fname(fname): os.path.relpath(fname, root); the root is one
\* level below "/", so a path outside it is reached through "..".
get_rel_fname(f) ==
    IF StartsWith(f, Root) THEN SubSeq(f, Len(Root) + 1, Len(f))
    ELSE <<".", ".">> \o f

\* Path(p).name: the part after the last separator
RECURSIVE PathName(_)
PathName(p) ==
    IF \E k \in 1..Len(p) : p[k] = "/"
    THEN PathName(Tail(p))
    ELSE p

SeqToSet(s) == {s[k] : k \in 1..Len(s)}

-----------------------------------------------------------------------------
(* The files of the model *)

PlanName == <<"p">>
SubdirPlanName == <<"d", "/", "p">>
CodeNames == {<<"a">>, <<"a", " ", "b">>}
ExternalFile == <<"/", "x">>                 \* a file outside coder.root
MissingName == <<"q">>                       \* names no file

RepoFiles == {Root \o n : n \in CodeNames \cup {PlanName, SubdirPlanName}}
AllFiles == RepoFiles \cup {ExternalFile}

-----------------------------------------------------------------------------
(* /drop, /reset, /add on the chat's file sets *)

\* Dropping every file, the original read-only ones too
DropAllKeepNothing(ed, ro, orig) == [ed |-> {}, ro |-> {}]

\* Commands._drop_all_files
\* Keeps the read-only files whose absolute or relative name was given at start-up.
_drop_all_files(ed, ro, orig) ==
    [ed |-> {},
     ro |-> IF orig # {}
            THEN {f \in ro : f \in orig \/ get_rel_fname(f) \in orig}
            ELSE {}]

\* One iteration of the loop over the words of /drop (cmd_drop, words without
\* glob characters or "~").  os.path.samefile(abspath(word), f) is taken with the
\* working directory at coder.root and no links: the two name the same file.
DropWord(word, ed, ro) ==
    LET read_only_matched == {f \in ro : IsSubstr(word, f) \/ abs_root_path(word) = f}
        substr_matched == {get_rel_fname(f) : f \in {g \in ed : IsSubstr(word, g)}}
        matched_files == IF substr_matched = {} THEN {word} ELSE substr_matched
    IN [ed |-> ed \ {abs_root_path(m) : m \in matched_files},
        ro |-> ro \ read_only_matched]

RECURSIVE DropWords(_, _, _)
DropWords(words, ed, ro) ==
    IF words = <<>> THEN [ed |-> ed, ro |-> ro]
    ELSE LET s == DropWord(Head(words), ed, ro)
         IN DropWords(Tail(words), s.ed, s.ro)

\* Commands.cmd_drop(args)
cmd_drop(args, ed, ro, orig) ==
    IF Strip(args) = <<>>
    THEN _drop_all_files(ed, ro, orig)
    ELSE DropWords(parse_quoted_filenames(args), ed, ro)

\* Commands.cmd_reset: the file sets and the two message lists afterwards
cmd_reset(ed, ro, orig) ==
    LET s == _drop_all_files(ed, ro, orig)
    IN [ed |-> s.ed, ro |-> s.ro, done |-> <<>>, cur |-> <<>>]

\* Every path counts as part of the repository
PathInRepoAlways(p, trk) == TRUE

\* GitRepo.path_in_repo(path) for a path under the root
path_in_repo(p, trk) == get_rel_fname(abs_root_path(p)) \in trk

\* First loop of cmd_add for one word: the files it matches and the disk
\* afterwards.  `create` is the answer io.confirm_ask gives to "Do you want to
\* create ...?".  Words carry no glob characters and name no directory.
AddWordMatches(word, dk, create) ==
    LET fname == abs_root_path(word)
    IN IF fname \in dk THEN [files |-> {fname}, dk |-> dk]
       ELSE IF create THEN [files |-> {fname}, dk |-> dk \cup {fname}]
       ELSE [files |-> {}, dk |-> dk]

RECURSIVE AddMatches(_, _, _)
AddMatches(words, dk, create) ==
    IF words = <<>> THEN [files |-> {}, dk |-> dk]
    ELSE LET m == AddWordMatches(Head(words), dk, create)
             r == AddMatches(Tail(words), m.dk, create)
         IN [files |-> m.files \cup r.files, dk |-> r.dk]

\* Second loop of cmd_add for one matched file.
AddMatched(f, ed, ro, trk, repo) ==
    IF ~StartsWith(f, Root) THEN [ed |-> ed, ro |-> ro]
    ELSE IF f \in ed THEN [ed |-> ed, ro |-> ro]
    ELSE IF f \in ro
         THEN IF repo /\ path_in_repo(f, trk)
              THEN [ed |-> ed \cup {f}, ro |-> ro \ {f}]
              ELSE [ed |-> ed, ro |-> ro]
    ELSE [ed |-> ed \cup {f}, ro |-> ro]

RECURSIVE AddAllMatched(_, _, _, _, _)
AddAllMatched(fs, ed, ro, trk, repo) ==
    IF fs = <<>> THEN [ed |-> ed, ro |-> ro]
    ELSE LET s == AddMatched(Head(fs), ed, ro, trk, repo)
         IN AddAllMatched(Tail(fs), s.ed, s.ro, trk, repo)

\* Commands.cmd_add(args)
cmd_add(args, ed, ro, dk, trk, repo, create) ==
    LET m == AddMatches(parse_quoted_filenames(args), dk, create)
        s == AddAllMatched(Sorted(m.files), ed, ro, trk, repo)
    IN [ed |-> s.ed, ro |-> s.ro, dk |-> m.dk]

\* coder.get_inchat_relative_files()
get_inchat_relative_files(ed) == Sorted({get_rel_fname(f) : f \in ed})

-----------------------------------------------------------------------------
(* The git repository behind coder.repo *)

GitFiles == {"f", "g"}
\* What a path holds when no file is there
Absent == "absent"

\* What a path can hold: nothing, or one of the texts written to it
Contents == {Absent, "first content", "second content"}
Trees == [GitFiles -> Contents]

\* A commit: its first parent (0 for the root commit), whether it has a second
\* parent (the tip of the branch that was merged), and its tree.
Commit(parent, merged, tree) == [parent |-> parent, merged |-> merged, tree |-> tree]

NumParents(c) == (IF c.parent = 0 THEN 0 ELSE 1) + (IF c.merged THEN 1 ELSE 0)

NoPre == [head |-> 0, index |-> <<>>, worktree |-> <<>>, failed |-> {}]

\* The repository of a session in which no git command is looked at.
RepoIdle ==
    /\ commits = <<>>
    /\ head = 0
    /\ index = <<>>
    /\ worktree = <<>>
    /\ origin_head = 0
    /\ aider_commit_hashes = {}

GitIdle ==
    /\ RepoIdle
    /\ last_cmd = "none"
    /\ before_cmd = NoPre

\* No session file has been written
NoFile == [exists |-> FALSE, lines |-> <<>>]

NoRoundTrip == [stage |-> "none", ed |-> {}, ro |-> {}]

SessIdle ==
    /\ session_file = NoFile
    /\ round_trip = NoRoundTrip

\* cmd_solve_jira has not been called
NoJiraCall ==
    [args |-> <<>>, key |-> <<>>, with_pr |-> FALSE, with_code_cleanup |-> FALSE,
     found |-> [ed |-> {}, ro |-> {}, done |-> <<>>, cur |-> <<>>]]

JiraIdle ==
    /\ jpc = "idle"
    /\ jira_call = NoJiraCall
    /\ jira_events = <<>>

\* An environment variable: os.environ.get(name) is None, or its value
EnvUnset == [set |-> FALSE, value |-> <<>>]

EnvValue(v) == [set |-> TRUE, value |-> v]

CleanEnv == [GIT_COMMITTER_NAME |-> EnvUnset, GIT_AUTHOR_NAME |-> EnvUnset]

\* GitRepo.commit has not been called
NoCommitCall ==
    [aider_edits |-> FALSE, original_committer_name_env |-> EnvUnset,
     original_author_name_env |-> EnvUnset, env_before |-> CleanEnv, outcome |-> "none"]

NoCommitMade == [made |-> FALSE, author |-> <<>>, committer |-> <<>>]

EnvIdle ==
    /\ os_environ = CleanEnv
    /\ attribution = [attribute_author |-> "True", attribute_committer |-> "True"]
    /\ cpc = "idle"
    /\ commit_call = NoCommitCall
    /\ last_commit = NoCommitMade

PrIdle ==
    /\ prpc = "idle"
    /\ pr_runs = <<>>
    /\ pr_calls = 0
    /\ pr_result = "none"

\* get_tracked_files has not been called
NoAnswer == [given |-> FALSE, files |-> {}, head |-> 0, index |-> <<>>]

TrackedIdle ==
    /\ tree_files = <<>>
    /\ ignored = {}
    /\ tracked_files = NoAnswer

CleanIdle ==
    /\ clean_pc = "off"
    /\ code_files = <<>>
    /\ clean_events = <<>>

RunIdle ==
    /\ run_pc = "off"
    /\ load_file = <<>>
    /\ load_lines = <<>>
    /\ run_log = <<>>

NoAiderignore == [exists |-> FALSE, mtime |-> 0, lines |-> {}]

NotAsked == [given |-> FALSE, fname |-> "f", result |-> FALSE, raw |-> FALSE,
             waited |-> FALSE]

IgnoreIdle ==
    /\ now = 1
    /\ aiderignore = NoAiderignore
    /\ aider_ignore_last_check = 0
    /\ aider_ignore_ts = 0
    /\ aider_ignore_spec = {}
    /\ ignore_file_cache = <<>>
    /\ ignored_answer = NotAsked

MoreIdle == CleanIdle /\ RunIdle /\ IgnoreIdle

OtherIdle == JiraIdle /\ EnvIdle /\ PrIdle /\ TrackedIdle /\ MoreIdle

\* The parts of the program a specification does not look at
RestIdle == SessIdle /\ OtherIdle

-----------------------------------------------------------------------------
(* Commands.cmd_code_from_plan *)

\* int(x) as cmd_code_from_plan and PlanCoder use it: x is the reply, a string or
\* None.  A string is stripped, may carry one sign, and must then be digits only.
RECURSIVE DecValue(_, _)
DecValue(ds, acc) ==
    IF ds = <<>> THEN acc ELSE DecValue(Tail(ds), 10 * acc + DigitValue(Head(ds)))

int(r) ==
    IF ~r.present THEN [err |-> "TypeError", val |-> 0]
    ELSE LET t == Strip(r.text)
             signed == t # <<>> /\ Head(t) \in {"+", "-"}
             body == IF signed THEN Tail(t) ELSE t
         IN IF body = <<>> \/ \E k \in 1..Len(body) : ~IsDigit(body[k])
            THEN [err |-> "ValueError", val |-> 0]
            ELSE [err |-> "none",
                  val |-> IF signed /\ Head(t) = "-"
                          THEN 0 - DecValue(body, 0) ELSE DecValue(body, 0)]

Str(t) == [present |-> TRUE, text |-> t]
None == [present |-> FALSE, text |-> <<>>]

\* What the model may answer to the step-count question.
Replies ==
    {Str(<<DigitChars[n + 1]>>) : n \in 0..MaxSteps}
    \cup {Str(<<" ", "2", " ">>), Str(<<"-", "1">>), Str(<<"2", " ", "x">>),
          Str(<<"x">>), Str(<<>>), None}

\* get_step_prompt embedding the path as typed instead of Path(plan_path).name
get_step_prompt_full_path(step_number, path) ==
    [text |-> "Implement only step", step |-> step_number, file |-> path]

\* get_step_prompt(step_number, plan_path)
get_step_prompt(step_number, path) ==
    [text |-> "Implement only step", step |-> step_number, file |-> PathName(path)]

\* the prompt of the else branch (in_one_go)
WholePlanPrompt(path) ==
    [text |-> "Please, implement the plan step by step", file |-> PathName(path)]

\* `except ValueError` around the int() of the reply
CountErrorCaught(err) == err = "ValueError"

\* the step number get_step_prompt receives in the retry loop `for j in range(i, ...)`
RetryPromptStep(i, j) == i

Session(prompt, exclude, summarize) ==
    [kind |-> "session", prompt |-> prompt, exclude |-> exclude, summarize |-> summarize]

Output(text, n) == [kind |-> "output", text |-> text, n |-> n]

\* Commands._run_new_coder after step_coder.run(prompt) returned: the session
\* added `added` to the chat; every in-chat file not named in exclude_from_drop is
\* passed to cmd_drop.
files2drop(ed, exclude) ==
    SelectSeq(get_inchat_relative_files(ed), LAMBDA f : f \notin SeqToSet(exclude))

_run_new_coder(added, exclude, ed, ro, orig) ==
    cmd_drop(Join(files2drop(ed \cup added, exclude)), ed \cup added, ro, orig)

\* What an editing session may add to the chat: files that exist under the root.
SessionAdds == {A \in SUBSET (RepoFiles \ {Root \o SubdirPlanName}) :
                    Cardinality(A) <= MaxChatFiles}

PlanArgs == {<<>>, PlanName, <<" ">> \o PlanName, Root \o PlanName, SubdirPlanName,
             MissingName}

NoSession == [status |-> "none", added |-> {}, before |-> {}]

\* Leaving the with-block without putting io.confirm_ask back
AutoConfirmStays(original) == "auto"

\* _AutoConfirmContext.__exit__: io.confirm_ask = self.original_confirm_ask
AutoConfirmExit(original) == original

\* The end of the command once the with-block is left normally.
Finish(evs, orig, sw) ==
    /\ events' = evs \o <<Output("Plan execution completed!", 0)>>
    /\ confirm_ask' = AutoConfirmExit(orig)
    /\ pc' = IF sw THEN "SwitchCoder" ELSE "returned"

\* An exception leaves the with-block: __exit__ restores io.confirm_ask.
Raise(evs, orig, kind) ==
    /\ events' = evs
    /\ confirm_ask' = AutoConfirmExit(orig)
    /\ pc' = kind

\* Lines 1907-1952, and the whole command when it never starts a session.
CodeFromPlanStart ==
    /\ pc = "idle"
    /\ \E args \in PlanArgs, sw \in BOOLEAN, r \in Replies :
        /\ switch_coder' = sw
        /\ plan_path' = Strip(args)
        /\ IF Strip(args) = <<>>
           THEN /\ events' = events \o <<Output("Please provide a path to a Markdown plan file", 0)>>
                /\ pc' = "returned"
                /\ UNCHANGED <<reply, step_count, step_i, original_confirm_ask, confirm_ask,
                               abs_fnames, abs_read_only_fnames, disk>>
           ELSE IF abs_root_path(Strip(args)) \notin disk
           THEN /\ events' = events \o <<Output("Plan file not found", 0)>>
                /\ pc' = "returned"
                /\ UNCHANGED <<reply, step_count, step_i, original_confirm_ask, confirm_ask,
                               abs_fnames, abs_read_only_fnames, disk>>
           ELSE LET s == cmd_add(Strip(args), abs_fnames, abs_read_only_fnames, disk,
                                 tracked, has_repo, confirm_ask = "auto")
                    n == int(r)
                    evs == events \o <<Output("Analyzing the plan to determine the number of steps...", 0)>>
                IN /\ abs_fnames' = s.ed
                   /\ abs_read_only_fnames' = s.ro
                   /\ disk' = s.dk
                   /\ reply' = r
                   /\ original_confirm_ask' = confirm_ask
                   /\ step_i' = 1
                   /\ IF n.err = "none"
                      THEN /\ step_count' = n.val
                           /\ IF n.val >= 1
                              THEN /\ events' = evs \o <<Output("Found steps", n.val)>>
                                   /\ confirm_ask' = "auto"
                                   /\ pc' = "loop"
                              ELSE Finish(evs \o <<Output("Found steps", n.val)>>,
                                          confirm_ask, sw)
                      ELSE IF CountErrorCaught(n.err)
                      THEN /\ step_count' = step_count
                           /\ events' = evs \o <<Output("Unable to determine number of steps", 0)>>
                           /\ confirm_ask' = "auto"
                           /\ pc' = "one_go"
                      ELSE /\ step_count' = step_count
                           /\ Raise(evs, confirm_ask, n.err)
    /\ UNCHANGED <<step_j, last_session, original_read_only_fnames, done_messages,
                   cur_messages, tracked, has_repo>>

\* What a session that ran to its end leaves behind (_run_new_coder, lines 578-586):
\* self.coder becomes the step coder, whose files are then dropped.  A session
\* that raises leaves self.coder, and so the chat, as it was.
SessionReturned(added) ==
    LET s == _run_new_coder(added, <<PathName(plan_path)>>, abs_fnames,
                            abs_read_only_fnames, original_read_only_fnames)
    IN /\ abs_fnames' = s.ed
       /\ abs_read_only_fnames' = s.ro
       /\ cur_messages' = cur_messages \o <<"user", "assistant">>
       /\ last_session' = [status |-> "returned", added |-> added, before |-> abs_fnames]

SessionRaised ==
    /\ last_session' = [status |-> "raised", added |-> {}, before |-> abs_fnames]
    /\ UNCHANGED <<abs_fnames, abs_read_only_fnames, cur_messages>>

\* One iteration of `for i in range(1, step_count + 1)` (lines 1956-1959); after
\* the last one the command runs to its end; `except Exception` (lines 1960-1961)
\* enters the retry loop.
StepSession ==
    /\ pc = "loop"
    /\ step_i <= step_count
    /\ LET evs == events \o <<Output("Implementing step", step_i),
                             Session(get_step_prompt(step_i, plan_path),
                                     <<PathName(plan_path)>>, FALSE)>>
       IN \/ \E added \in SessionAdds :
                /\ SessionReturned(added)
                /\ step_i' = step_i + 1
                /\ step_j' = step_j
                /\ IF step_i = step_count
                   THEN Finish(evs, original_confirm_ask, switch_coder)
                   ELSE /\ events' = evs
                        /\ UNCHANGED <<pc, confirm_ask>>
          \/ /\ SessionRaised
             /\ events' = evs \o <<Output("Failed to implement step, trying again.", step_i)>>
             /\ pc' = "retry"
             /\ step_j' = step_i
             /\ UNCHANGED <<step_i, confirm_ask>>
    /\ UNCHANGED <<plan_path, reply, step_count, switch_coder, original_confirm_ask,
                   original_read_only_fnames, done_messages, disk, tracked, has_repo>>

\* One iteration of `for j in range(i, step_count + 1)` (lines 1962-1965); an
\* exception here is not caught.
RetrySession ==
    /\ pc = "retry"
    /\ step_j <= step_count
    /\ LET evs == events \o <<Output("Implementing step", step_j),
                             Session(get_step_prompt(RetryPromptStep(step_i, step_j), plan_path),
                                     <<PathName(plan_path)>>, FALSE)>>
       IN \/ \E added \in SessionAdds :
                /\ SessionReturned(added)
                /\ step_j' = step_j + 1
                /\ IF step_j = step_count
                   THEN Finish(evs, original_confirm_ask, switch_coder)
                   ELSE /\ events' = evs
                        /\ UNCHANGED <<pc, confirm_ask>>
          \/ /\ SessionRaised
             /\ Raise(evs, original_confirm_ask, "Exception")
             /\ step_j' = step_j
    /\ UNCHANGED <<plan_path, reply, step_count, step_i, switch_coder, original_confirm_ask,
                   original_read_only_fnames, done_messages, disk, tracked, has_repo>>

\* The else branch (lines 1966-1971): the whole plan in one session.
OneGoSession ==
    /\ pc = "one_go"
    /\ LET evs == events \o <<Session(WholePlanPrompt(plan_path),
                                     <<PathName(plan_path)>>, FALSE)>>
       IN \/ \E added \in SessionAdds :
                /\ SessionReturned(added)
                /\ Finish(evs, original_confirm_ask, switch_coder)
          \/ /\ SessionRaised
             /\ Raise(evs, original_confirm_ask, "Exception")
    /\ UNCHANGED <<plan_path, reply, step_count, step_i, step_j, switch_coder,
                   original_confirm_ask, original_read_only_fnames, done_messages, disk,
                   tracked, has_repo>>

AffIdle ==
    /\ apc = "off"
    /\ areply = None
    /\ num_steps = 0
    /\ step_num = 0
    /\ all_identified_files = <<>>
    /\ discovered = <<>>
    /\ warnings = 0
    /\ aresult = [kind |-> "none"]

\* The chat when /code-from-plan is typed: some files were added before, some are
\* read-only, and some of those were given on the command line.
InitPlan ==
    /\ abs_fnames \in {{}, {Root \o <<"a">>}, {Root \o PlanName}}
    /\ abs_read_only_fnames \in {{}, {Root \o <<"a", " ", "b">>}, {Root \o PlanName},
                                {ExternalFile}}
    /\ abs_fnames \cap abs_read_only_fnames = {}
    /\ original_read_only_fnames \in {{}, abs_read_only_fnames}
    /\ done_messages = <<>>
    /\ cur_messages = <<>>
    /\ disk = AllFiles
    /\ tracked \in {{get_rel_fname(f) : f \in RepoFiles},
                    {get_rel_fname(f) : f \in RepoFiles} \ {PlanName}}
    /\ has_repo = TRUE
    /\ confirm_ask = "ask"
    /\ pc = "idle"
    /\ plan_path = <<>>
    /\ reply = None
    /\ step_count = 0
    /\ step_i = 0
    /\ step_j = 0
    /\ switch_coder = FALSE
    /\ original_confirm_ask = "ask"
    /\ events = <<>>
    /\ last_session = NoSession
    /\ AffIdle
    /\ GitIdle
    /\ RestIdle

NextPlan ==
    \/ CodeFromPlanStart /\ UNCHANGED <<affVars, gitVars, restVars>>
    \/ StepSession /\ UNCHANGED <<affVars, gitVars, restVars>>
    \/ RetrySession /\ UNCHANGED <<affVars, gitVars, restVars>>
    \/ OneGoSession /\ UNCHANGED <<affVars, gitVars, restVars>>

vars == <<chatVars, planVars, affVars, gitVars, restVars>>

SpecPlan == InitPlan /\ [][NextPlan]_vars

-----------------------------------------------------------------------------
(* PlanCoder.identify_affected_files *)

\* str(n) of a non-negative integer, as the f-string "Step {step_num}" formats it
RECURSIVE Decimal(_)
Decimal(n) ==
    IF n < 10 THEN <<DigitChars[n + 1]>>
    ELSE Decimal(n \div 10) \o <<DigitChars[(n % 10) + 1]>>

\* the key all_identified_files[f"Step {step_num}"] is stored under, were the step
\* number left out of it
StepKeyWithoutNumber(n) == <<"S", "t", "e", "p">>

\* f"Step {step_num}"
StepKey(n) == <<"S", "t", "e", "p", " ">> \o Decimal(n)

\* `except (ValueError, TypeError)` of identify_affected_files, were it to name
\* ValueError alone
AffectedOnlyValueErrorCaught(err) == err = "ValueError"

\* `except (ValueError, TypeError)` of identify_affected_files
AffectedErrorCaught(err) == err \in {"ValueError", "TypeError"}

\* The files a file-discovery session may name: ask_context_coder builds a new
\* ContextCoder, with no files, and its abs_fnames after run_one are these.
DiscoverableFiles == {Root \o n : n \in CodeNames}

\* list(a_set): the members, once each, in some order
ListsOf(S) == {l \in [1..Cardinality(S) -> S] : SeqToSet(l) = S}

StepMessage(n) == [text |-> "For step of the implementation plan below", step |-> n]
WholePlanMessage == [text |-> "determine the specific files that would need editing"]

\* dict assignment d[key] = val
DictPut(d, key, val) == [k \in DOMAIN d \cup {key} |-> IF k = key THEN val ELSE d[k]]

EmptyDict == [k \in {} |-> <<>>]

\* Lines 59-75 and 88-96: the count question and what its answer leads to.
AffectedStart ==
    /\ apc = "idle"
    /\ \E r \in Replies :
        LET n == int(r)
            err == IF n.err = "none" /\ n.val <= 0 THEN "ValueError" ELSE n.err
        IN /\ areply' = r
           /\ IF err = "none"
              THEN /\ num_steps' = n.val
                   /\ step_num' = 1
                   /\ apc' = "steps"
                   /\ warnings' = warnings
              ELSE IF AffectedErrorCaught(err)
              THEN /\ warnings' = warnings + 1
                   /\ apc' = "fallback"
                   /\ UNCHANGED <<num_steps, step_num>>
              ELSE /\ apc' = err
                   /\ UNCHANGED <<num_steps, step_num, warnings>>
    /\ all_identified_files' = EmptyDict
    /\ UNCHANGED <<discovered, aresult>>

\* One iteration of `for step_num in range(1, num_steps + 1)` with files_in_step
\* (lines 80-85, 101-115); the dict is returned after the last one (line 87).
AffectedStep ==
    /\ apc = "steps"
    /\ step_num <= num_steps
    /\ \E found \in SUBSET DiscoverableFiles :
        \E step_files \in ListsOf({get_rel_fname(f) : f \in found}) :
            LET d == DictPut(all_identified_files, StepKey(step_num), step_files)
            IN /\ discovered' = Append(discovered, [message |-> StepMessage(step_num),
                                                    found |-> found])
               /\ all_identified_files' = d
               /\ step_num' = step_num + 1
               /\ IF step_num = num_steps
                  THEN /\ apc' = "done"
                       /\ aresult' = [kind |-> "dict", value |-> d]
                  ELSE UNCHANGED <<apc, aresult>>
    /\ UNCHANGED <<areply, num_steps, warnings>>

\* The except branch (lines 88-99): one session for the whole plan.
AffectedFallback ==
    /\ apc = "fallback"
    /\ \E found \in SUBSET DiscoverableFiles :
        /\ discovered' = Append(discovered, [message |-> WholePlanMessage, found |-> found])
        /\ aresult' = [kind |-> "set", value |-> {get_rel_fname(f) : f \in found}]
        /\ apc' = "done"
    /\ UNCHANGED <<areply, num_steps, step_num, all_identified_files, warnings>>

ChatFilesIdle ==
    /\ abs_fnames = {}
    /\ abs_read_only_fnames = {}
    /\ original_read_only_fnames = {}
    /\ done_messages = <<>>
    /\ cur_messages = <<>>
    /\ disk = AllFiles
    /\ tracked = {get_rel_fname(f) : f \in RepoFiles}
    /\ confirm_ask = "ask"

ChatIdle ==
    /\ ChatFilesIdle
    /\ has_repo = TRUE

PlanIdle ==
    /\ pc = "off"
    /\ plan_path = <<>>
    /\ reply = None
    /\ step_count = 0
    /\ step_i = 0
    /\ step_j = 0
    /\ switch_coder = FALSE
    /\ original_confirm_ask = "ask"
    /\ events = <<>>
    /\ last_session = NoSession

InitAffected ==
    /\ ChatIdle
    /\ PlanIdle
    /\ GitIdle
    /\ RestIdle
    /\ apc = "idle"
    /\ areply = None
    /\ num_steps = 0
    /\ step_num = 0
    /\ all_identified_files = EmptyDict
    /\ discovered = <<>>
    /\ warnings = 0
    /\ aresult = [kind |-> "none"]

NextAffected ==
    \/ AffectedStart /\ UNCHANGED <<chatVars, planVars, gitVars, restVars>>
    \/ AffectedStep /\ UNCHANGED <<chatVars, planVars, gitVars, restVars>>
    \/ AffectedFallback /\ UNCHANGED <<chatVars, planVars, gitVars, restVars>>

SpecAffected == InitAffected /\ [][NextAffected]_vars

-----------------------------------------------------------------------------
(* Claims about cmd_code_from_plan *)

Sessions(evs) == SelectSeq(evs, LAMBDA e : e.kind = "session")

Said(text) == \E k \in 1..Len(events) : events[k].kind = "output" /\ events[k].text = text

CountSaid(text) ==
    Cardinality({k \in 1..Len(events) : events[k].kind = "output" /\ events[k].text = text})

\* the step-count question was put to the model (the plan file exists)
Asked == Said("Analyzing the plan to determine the number of steps...")

Ended == pc \in {"returned", "SwitchCoder"}

NoSessionRaised == pc # "Exception" /\ ~Said("Failed to implement step, trying again.")

ThePlan == abs_root_path(plan_path)

ExpectedStepSession(k) ==
    [kind |-> "session",
     prompt |-> [text |-> "Implement only step", step |-> k, file |-> PlanName],
     exclude |-> <<PlanName>>,
     summarize |-> FALSE]

\* C1: when the reply parses to N >= 1 and no session raises, the sessions run are
\* those of steps 1, 2, ..., in that order, each with the prompt naming its step and
\* the plan file's name, excluding only the plan file's name from the drop and with
\* summarize_from_coder = False; the command ends after exactly N of them, and
\* "Plan execution completed!" is reported once, as the last thing, only then.
C1_StepsRunInOrder ==
    LET n == int(reply)
        sess == Sessions(events)
    IN (Asked /\ n.err = "none" /\ n.val >= 1 /\ NoSessionRaised) =>
          /\ \A k \in 1..Len(sess) : sess[k] = ExpectedStepSession(k)
          /\ IF Ended
             THEN /\ Len(sess) = n.val
                  /\ CountSaid("Plan execution completed!") = 1
                  /\ events[Len(events)] = Output("Plan execution completed!", 0)
             ELSE /\ pc = "loop"
                  /\ Len(sess) < n.val
                  /\ Len(sess) = step_i - 1
                  /\ CountSaid("Plan execution completed!") = 0

C1_Witness ==
    /\ Ended
    /\ NoSessionRaised
    /\ int(reply).val = MaxSteps
    /\ Len(Sessions(events)) = MaxSteps
    /\ plan_path = SubdirPlanName

\* C2: after a step's session has finished, the plan file (in the chat when the
\* session started) is still in the chat and no other editable file is.
C2_OnlyPlanFileStays ==
    (/\ int(reply).err = "none"
     /\ last_session.status = "returned"
     /\ ThePlan \in last_session.before) =>
        abs_fnames = {ThePlan}

\* C3: after the session of step i raised, the sessions run from then on are those
\* of steps i, i+1, ..., N in that order, each asked to implement its own step.
RetrySessions ==
    LET f == CHOOSE k \in 1..Len(events) :
                 events[k].kind = "output"
                 /\ events[k].text = "Failed to implement step, trying again."
    IN Sessions(SubSeq(events, f + 1, Len(events)))

FailedStep ==
    LET f == CHOOSE k \in 1..Len(events) :
                 events[k].kind = "output"
                 /\ events[k].text = "Failed to implement step, trying again."
    IN events[f].n

C3_RetryNamesOwnStep ==
    Said("Failed to implement step, trying again.") =>
        /\ \A k \in 1..Len(RetrySessions) :
               RetrySessions[k] = ExpectedStepSession(FailedStep + k - 1)
        /\ Ended => Len(RetrySessions) = int(reply).val - FailedStep + 1

\* C4: whenever the reply does not yield an integer (text, empty, or no reply), the
\* command does not raise on it, and it ends after exactly one session, the one
\* asked to implement the whole plan.
C4_ParseFailureFallsBack ==
    (Asked /\ int(reply).err # "none") =>
        /\ pc \in {"one_go", "returned", "SwitchCoder", "Exception"}
        /\ Ended => Sessions(events) =
                        <<[kind |-> "session",
                           prompt |-> [text |-> "Please, implement the plan step by step",
                                       file |-> PlanName],
                           exclude |-> <<PlanName>>,
                           summarize |-> FALSE]>>

-----------------------------------------------------------------------------
(* Claims about PlanCoder.identify_affected_files *)

CountUnusable(r) == int(r).err # "none" \/ int(r).val <= 0

\* C5: when the step-count reply is not an integer, is missing, or is <= 0, the
\* method does not raise; it warns once, runs no per-step session and exactly one
\* session for the whole plan, and returns the flat set of the relative paths that
\* session identified.
C5_FallbackIsOneFlatDiscovery ==
    (apc # "idle" /\ CountUnusable(areply)) =>
        /\ apc \in {"fallback", "done"}
        /\ warnings = 1
        /\ \A k \in 1..Len(discovered) : discovered[k].message = WholePlanMessage
        /\ IF apc = "done"
           THEN /\ Len(discovered) = 1
                /\ aresult = [kind |-> "set",
                              value |-> {SubSeq(f, Len(Root) + 1, Len(f)) :
                                             f \in discovered[1].found}]
           ELSE /\ discovered = <<>>
                /\ aresult = [kind |-> "none"]

C5_Witness ==
    /\ apc = "done"
    /\ ~areply.present
    /\ aresult.kind = "set"
    /\ Cardinality(aresult.value) = 2

-----------------------------------------------------------------------------
(* GitRepo.commit, Commands.cmd_commit, Commands.cmd_undo *)

\* git.Repo.is_dirty(path=f): the index differs from HEAD, or the working tree
\* differs from the index; a file the index does not hold is untracked and is not
\* looked at.
PathDirty(f, ht, idx, wt) == idx[f] # ht[f] \/ (idx[f] # Absent /\ wt[f] # idx[f])

\* GitRepo.is_dirty() with no path
is_dirty(ht, idx, wt) == \E f \in GitFiles : PathDirty(f, ht, idx, wt)

\* GitRepo.get_tracked_files: the files of HEAD's tree and of the index
IsTracked(f, ht, idx) == ht[f] # Absent \/ idx[f] # Absent

\* `git diff HEAD -- f` shows something
DiffHead(f, ht, idx, wt) == IF idx[f] # Absent THEN wt[f] # ht[f] ELSE ht[f] # Absent

\* GitRepo.get_diffs(fnames) is not empty: "Added <fname>" for a file git does not
\* track, and `git diff HEAD -- fnames`
get_diffs(fnames, ht, idx, wt) ==
    IF fnames = {}
    THEN \E f \in GitFiles : DiffHead(f, ht, idx, wt)
    ELSE \E f \in fnames : ~IsTracked(f, ht, idx) \/ DiffHead(f, ht, idx, wt)

\* GitRepo.commit(fnames, message, aider_edits) on the repository (cs, h, idx, wt):
\* what it returns (made: a commit was created, its hash being the new head) and
\* the repository afterwards.  With fnames it runs `git add` on each and
\* `git commit -m .. -- fnames`; without, `git commit -m .. -a`.  git refuses a
\* commit that changes nothing, and the refusal is caught and reported.
commit(fnames, cs, h, idx, wt) ==
    LET ht == cs[h].tree
        added == [f \in GitFiles |-> IF f \in fnames THEN wt[f] ELSE idx[f]]
        staged == [f \in GitFiles |-> IF idx[f] # Absent THEN wt[f] ELSE idx[f]]
        tree == IF fnames = {} THEN staged
                ELSE [f \in GitFiles |-> IF f \in fnames THEN wt[f] ELSE ht[f]]
        unchanged == [made |-> FALSE, commits |-> cs, head |-> h, index |-> idx]
    IN IF fnames = {} /\ ~is_dirty(ht, idx, wt) THEN unchanged
       ELSE IF ~get_diffs(fnames, ht, idx, wt) THEN unchanged
       ELSE IF tree # ht
       THEN [made |-> TRUE,
             commits |-> Append(cs, Commit(h, FALSE, tree)),
             head |-> Len(cs) + 1,
             index |-> IF fnames = {} THEN staged ELSE added]
       ELSE [unchanged EXCEPT !.index = IF fnames = {} THEN idx ELSE added]

\* def commit(self, fnames=None, context=None, message=None, aider_edits=False)
CommitParameters == {"fnames", "context", "message", "aider_edits"}

\* self.coder.repo.commit(message=commit_message, coder=self.coder)
CmdCommitKeywords == {"message", "coder"}

\* ANY_GIT_ERROR
ANY_GIT_ERROR ==
    {"ODBError", "GitError", "InvalidGitRepositoryError", "GitCommandNotFound", "OSError",
     "IndexError", "BufferError", "TypeError", "ValueError", "AttributeError",
     "AssertionError", "TimeoutError"}

\* The repository as a command finds it; failed: the files whose checkout raised
Snapshot(failed) ==
    [head |-> head, index |-> index, worktree |-> worktree, failed |-> failed]

\* Commands.cmd_commit / raw_cmd_commit.  A call with a keyword the callee does
\* not accept raises TypeError before the callee runs.
CmdCommit ==
    /\ before_cmd' = Snapshot({})
    /\ IF ~has_repo
       THEN /\ last_cmd' = "commit: No git repository found."
            /\ UNCHANGED <<commits, head, index>>
       ELSE IF ~is_dirty(commits[head].tree, index, worktree)
       THEN /\ last_cmd' = "commit: No more changes to commit."
            /\ UNCHANGED <<commits, head, index>>
       ELSE IF ~(CmdCommitKeywords \subseteq CommitParameters)
       THEN /\ last_cmd' = IF "TypeError" \in ANY_GIT_ERROR
                           THEN "commit: Unable to complete commit"
                           ELSE "commit: TypeError"
            /\ UNCHANGED <<commits, head, index>>
       ELSE /\ Len(commits) < MaxCommits
            /\ LET r == commit({}, commits, head, index, worktree)
               IN /\ commits' = r.commits
                  /\ head' = r.head
                  /\ index' = r.index
                  /\ last_cmd' = "commit: returned"
    /\ UNCHANGED <<worktree, origin_head, aider_commit_hashes>>
    /\ UNCHANGED <<chatVars, planVars, affVars, restVars>>

\* commit.hexsha[:7]: the model's hashes are the commit numbers, all distinct
ShortSha(c) == c

\* [item.a_path for item in last_commit.diff(prev_commit)]
changed_files(last, prev) == {f \in GitFiles : last.tree[f] # prev.tree[f]}

\* The order in which a diff lists paths
FileOrder == <<"f", "g">>

\* A changed file with uncommitted changes does not stop the undo
UndoIgnoresDirty(f, ht, idx, wt) == FALSE

\* self.coder.repo.repo.is_dirty(path=fname)
UndoFileDirty(f, ht, idx, wt) == PathDirty(f, ht, idx, wt)

\* The checks of raw_cmd_undo before it touches anything: the reason it refuses,
\* or "ok".  The loop over the changed files stops at the first file that is dirty
\* or that the previous commit does not hold.
UndoRefusal ==
    IF ~has_repo THEN "No git repository found."
    ELSE IF NumParents(commits[head]) = 0
    THEN "This is the first commit in the repository."
    ELSE IF ShortSha(head) \notin aider_commit_hashes
    THEN "The last commit was not made by aider in this chat session."
    ELSE IF NumParents(commits[head]) > 1 THEN "more than 1 parent"
    ELSE LET prev == commits[commits[head].parent]
             changed == changed_files(commits[head], prev)
             stops(f) == \/ UndoFileDirty(f, commits[head].tree, index, worktree)
                         \/ prev.tree[f] = Absent
             at == {i \in 1..Len(FileOrder) : FileOrder[i] \in changed /\ stops(FileOrder[i])}
         IN IF at # {}
            THEN LET f == FileOrder[CHOOSE i \in at : \A k \in at : i <= k]
                 IN IF UndoFileDirty(f, commits[head].tree, index, worktree)
                    THEN "has uncommitted changes"
                    ELSE "was not in the repository in the previous commit"
            ELSE IF origin_head # 0 /\ origin_head = head
            THEN "already been pushed to the origin"
            ELSE "ok"

\* git checkout HEAD~1 <file> for every file but those it fails on: the index and
\* the working tree take the previous commit's version
checkout_prev(t, prev, files) ==
    [f \in GitFiles |-> IF f \in files THEN prev.tree[f] ELSE t[f]]

\* The restore that leaves the working tree as it is (index only)
checkout_prev_index_only(t, prev, files) == t

\* The working tree after the checkouts
checkout_worktree(t, prev, files) == checkout_prev(t, prev, files)

\* Commands.cmd_undo / raw_cmd_undo.  `failed` are the files whose checkout
\* raises; HEAD moves (git reset --soft HEAD~1) only when none failed.
CmdUndo ==
    /\ IF UndoRefusal # "ok"
       THEN /\ before_cmd' = Snapshot({})
            /\ last_cmd' = "undo: refused"
            /\ UNCHANGED <<head, index, worktree>>
       ELSE LET prev == commits[commits[head].parent]
                changed == changed_files(commits[head], prev)
            IN \E failed \in SUBSET changed :
                /\ before_cmd' = Snapshot(failed)
                /\ index' = checkout_prev(index, prev, changed \ failed)
                /\ worktree' = checkout_worktree(worktree, prev, changed \ failed)
                /\ IF failed = {}
                   THEN /\ head' = commits[head].parent
                        /\ last_cmd' = "undo: Removed"
                   ELSE /\ head' = head
                        /\ last_cmd' = "undo: aborting undo"
    /\ UNCHANGED <<commits, origin_head, aider_commit_hashes>>
    /\ UNCHANGED <<chatVars, planVars, affVars, restVars>>

(* What happens to the repository between commands *)

Env == /\ last_cmd' = "env"
       /\ before_cmd' = NoPre
       /\ UNCHANGED <<chatVars, planVars, affVars, restVars>>

\* path.write_text(..) / unlink: the working tree changes
WriteFile ==
    /\ has_repo
    /\ \E f \in GitFiles, c \in Contents :
        /\ worktree[f] # c
        /\ worktree' = [worktree EXCEPT ![f] = c]
    /\ UNCHANGED <<commits, head, index, origin_head, aider_commit_hashes>>
    /\ Env

\* repo.git.add(filename)
GitAdd ==
    /\ has_repo
    /\ \E f \in GitFiles :
        /\ index[f] # worktree[f]
        /\ index' = [index EXCEPT ![f] = worktree[f]]
    /\ UNCHANGED <<commits, head, worktree, origin_head, aider_commit_hashes>>
    /\ Env

\* GitRepo.commit called with some fnames or none (by the coder after an edit)
RepoCommit ==
    /\ has_repo
    /\ Len(commits) < MaxCommits
    /\ \E fnames \in SUBSET GitFiles :
        LET r == commit(fnames, commits, head, index, worktree)
        IN /\ r.made
           /\ commits' = r.commits
           /\ head' = r.head
           /\ index' = r.index
    /\ UNCHANGED <<worktree, origin_head, aider_commit_hashes>>
    /\ Env

\* coder.aider_commit_hashes.add(repo.head.commit.hexsha[:7])
RecordAiderCommit ==
    /\ has_repo
    /\ ShortSha(head) \notin aider_commit_hashes
    /\ aider_commit_hashes' = aider_commit_hashes \cup {ShortSha(head)}
    /\ UNCHANGED <<commits, head, index, worktree, origin_head>>
    /\ Env

\* git push: origin/<current branch> now names the local HEAD
Push ==
    /\ has_repo
    /\ origin_head # head
    /\ origin_head' = head
    /\ UNCHANGED <<commits, head, index, worktree, aider_commit_hashes>>
    /\ Env

\* The trees a repository starts with
FirstTree == [f \in GitFiles |-> IF f = "f" THEN "first content" ELSE Absent]

\* The histories the session finds: one commit, or a merge commit on top of it
InitHistories ==
    { <<Commit(0, FALSE, FirstTree)>>,
      <<Commit(0, FALSE, FirstTree), Commit(1, TRUE, [FirstTree EXCEPT !["f"] = "second content"])>> }

InitGit ==
    /\ ChatFilesIdle
    /\ PlanIdle
    /\ AffIdle
    /\ RestIdle
    /\ has_repo \in BOOLEAN
    /\ commits \in InitHistories
    /\ head = Len(commits)
    /\ index = commits[head].tree
    /\ worktree = commits[head].tree
    /\ origin_head = 0
    /\ aider_commit_hashes = {}
    /\ last_cmd = "none"
    /\ before_cmd = NoPre

NextGit ==
    \/ CmdCommit
    \/ CmdUndo
    \/ WriteFile
    \/ GitAdd
    \/ RepoCommit
    \/ RecordAiderCommit
    \/ Push

SpecGit == InitGit /\ [][NextGit]_vars

-----------------------------------------------------------------------------
(* Claims about cmd_commit and cmd_undo *)

CommitOutcomes ==
    {"commit: No git repository found.", "commit: No more changes to commit.",
     "commit: Unable to complete commit", "commit: TypeError", "commit: returned"}

UndoOutcomes == {"undo: refused", "undo: Removed", "undo: aborting undo"}

\* The repository was dirty when the last command started
WasDirty == is_dirty(commits[before_cmd.head].tree, before_cmd.index, before_cmd.worktree)

\* C7: when the repository has uncommitted changes, cmd_commit creates a commit of
\* them, and the repository is not dirty when the command returns.
C7_CommitLeavesRepoClean ==
    (last_cmd \in CommitOutcomes /\ has_repo /\ WasDirty)
        => /\ head # before_cmd.head
           /\ ~is_dirty(commits[head].tree, index, worktree)

\* The commit cmd_undo was asked to undo, its first parent, and the files it changed
Undone == commits[before_cmd.head]

UndoneParent == commits[Undone.parent]

UndoneFiles == {f \in GitFiles : Undone.tree[f] # UndoneParent.tree[f]}

\* The conditions C8 lists, as they stood when cmd_undo started
UndoConditions ==
    /\ NumParents(Undone) = 1
    /\ ShortSha(before_cmd.head) \in aider_commit_hashes
    /\ \A f \in UndoneFiles :
          ~PathDirty(f, Undone.tree, before_cmd.index, before_cmd.worktree)
    /\ \A f \in UndoneFiles : UndoneParent.tree[f] # Absent
    /\ (origin_head # 0 => origin_head # before_cmd.head)

\* C8: cmd_undo leaves HEAD unchanged unless HEAD has exactly one parent, its short
\* hash is one of the session's aider commits, no file it changed has uncommitted
\* changes, every file it changed existed in the parent, and origin/<branch>, when
\* it exists, is not the local HEAD; and when these hold and every checkout
\* succeeds HEAD moves, whatever the state of the files the commit did not touch.
C8_UndoOnlyWhenSafe ==
    (last_cmd \in UndoOutcomes /\ has_repo)
        => /\ head # before_cmd.head => UndoConditions
           /\ (NumParents(Undone) = 1 /\ UndoConditions /\ before_cmd.failed = {})
                 => head # before_cmd.head

\* An undo went through while a file the commit did not touch was dirty
C8_Witness ==
    /\ last_cmd = "undo: Removed"
    /\ head # before_cmd.head
    /\ \E f \in GitFiles \ UndoneFiles :
          PathDirty(f, Undone.tree, before_cmd.index, before_cmd.worktree)

\* C9: when cmd_undo succeeds HEAD is the single parent of the undone commit, every
\* file that commit changed holds the parent's version in the working tree, and
\* the other files are as they were, in the working tree and in the index.
C9_UndoRestoresParent ==
    last_cmd = "undo: Removed"
        => /\ NumParents(Undone) = 1
           /\ head = Undone.parent
           /\ \A f \in UndoneFiles : worktree[f] = UndoneParent.tree[f]
           /\ \A f \in GitFiles \ UndoneFiles :
                 /\ worktree[f] = before_cmd.worktree[f]
                 /\ index[f] = before_cmd.index[f]

\* An undo succeeded, gave a changed file back its earlier text, and left alone a
\* file with uncommitted changes
C9_Witness ==
    /\ last_cmd = "undo: Removed"
    /\ \E f \in UndoneFiles :
          /\ before_cmd.worktree[f] # UndoneParent.tree[f]
          /\ worktree[f] = UndoneParent.tree[f]
    /\ \E f \in GitFiles \ UndoneFiles :
          /\ before_cmd.index[f] # Absent
          /\ before_cmd.worktree[f] # before_cmd.index[f]
          /\ worktree[f] = before_cmd.worktree[f]

-----------------------------------------------------------------------------
(* The chat's file commands: /add, /read-only, /drop, /reset *)

\* Commands._add_read_only_file(abs_path, original_name), for a file that is no
\* image
\* Adding the file to the read-only set whatever set it is in
AddReadOnlyKeepsEditable(f, ed, ro) == [ed |-> ed, ro |-> ro \cup {f}]

_add_read_only_file(f, ed, ro) ==
    IF f \in ro THEN [ed |-> ed, ro |-> ro]
    ELSE IF f \in ed THEN [ed |-> ed \ {f}, ro |-> ro \cup {f}]
    ELSE [ed |-> ed, ro |-> ro \cup {f}]

RECURSIVE AddReadOnlyFiles(_, _, _)
AddReadOnlyFiles(fs, ed, ro) ==
    IF fs = <<>> THEN [ed |-> ed, ro |-> ro]
    ELSE LET s == _add_read_only_file(Head(fs), ed, ro)
         IN AddReadOnlyFiles(Tail(fs), s.ed, s.ro)

\* Commands.cmd_read_only(args): with no argument every editable file becomes
\* read-only; otherwise each word is globbed (an absolute word as it is, another
\* one under coder.root), which finds the files that exist, and these are added in
\* sorted order.  Words carry no glob characters and name no directory.
cmd_read_only(args, ed, ro, dk) ==
    IF Strip(args) = <<>>
    THEN [ed |-> {}, ro |-> ro \cup ed]
    ELSE LET words == parse_quoted_filenames(args)
             all_paths == {abs_root_path(w) : w \in SeqToSet(words)} \cap dk
         IN AddReadOnlyFiles(Sorted(all_paths), ed, ro)

\* What the user types after /add, /read-only and /drop
ChatArgs ==
    { <<>>, <<" ">>, <<"a">>, <<"p">>, <<"a", " ", "p">>, Root \o <<"p">>, ExternalFile,
      MissingName }


\* Names under which the read-only files of the command line reach Commands
OriginalNames == {Root \o PlanName, PlanName, ExternalFile}

\* The chat as a command finds it
ChatSnapshot(args) ==
    [args |-> args, ed |-> abs_fnames, ro |-> abs_read_only_fnames, disk |-> disk,
     done |-> done_messages, cur |-> cur_messages]

ChatFrame == UNCHANGED <<original_read_only_fnames, tracked, has_repo, confirm_ask,
                         planVars, affVars, repoVars, restVars>>

CmdAdd ==
    \E args \in ChatArgs \ {<<>>, <<" ">>}, create \in BOOLEAN :
        /\ create => \E w \in SeqToSet(parse_quoted_filenames(args)) : abs_root_path(w) \notin disk
        /\ LET s == cmd_add(args, abs_fnames, abs_read_only_fnames, disk, tracked,
                            has_repo, create)
           IN /\ abs_fnames' = s.ed
              /\ abs_read_only_fnames' = s.ro
              /\ disk' = s.dk
              /\ last_cmd' = "add"
              /\ before_cmd' = ChatSnapshot(args)
              /\ UNCHANGED <<done_messages, cur_messages>>
              /\ ChatFrame

CmdReadOnly ==
    \E args \in ChatArgs :
        LET s == cmd_read_only(args, abs_fnames, abs_read_only_fnames, disk)
        IN /\ abs_fnames' = s.ed
           /\ abs_read_only_fnames' = s.ro
           /\ last_cmd' = "read-only"
           /\ before_cmd' = ChatSnapshot(args)
           /\ UNCHANGED <<disk, done_messages, cur_messages>>
           /\ ChatFrame

CmdDrop ==
    \E args \in ChatArgs :
        LET s == cmd_drop(args, abs_fnames, abs_read_only_fnames, original_read_only_fnames)
        IN /\ abs_fnames' = s.ed
           /\ abs_read_only_fnames' = s.ro
           /\ last_cmd' = "drop"
           /\ before_cmd' = ChatSnapshot(args)
           /\ UNCHANGED <<disk, done_messages, cur_messages>>
           /\ ChatFrame

CmdReset ==
    LET s == cmd_reset(abs_fnames, abs_read_only_fnames, original_read_only_fnames)
    IN /\ abs_fnames' = s.ed
       /\ abs_read_only_fnames' = s.ro
       /\ done_messages' = s.done
       /\ cur_messages' = s.cur
       /\ last_cmd' = "reset"
       /\ before_cmd' = ChatSnapshot(<<>>)
       /\ UNCHANGED disk
       /\ ChatFrame

\* coder.cur_messages = [...]; coder.done_messages = [...]
SetMessages ==
    /\ cur_messages = <<>>
    /\ done_messages = <<>>
    /\ cur_messages' = <<"Test message 1">>
    /\ done_messages' = <<"Test message 2">>
    /\ last_cmd' = "messages"
    /\ before_cmd' = ChatSnapshot(<<>>)
    /\ UNCHANGED <<abs_fnames, abs_read_only_fnames, disk>>
    /\ ChatFrame

\* repo.git.add(file); repo.git.commit(..): a file of the working directory
\* becomes a tracked file
TrackFile ==
    /\ has_repo
    /\ \E f \in (disk \cap RepoFiles) :
          /\ get_rel_fname(f) \notin tracked
          /\ tracked' = tracked \cup {get_rel_fname(f)}
    /\ last_cmd' = "git add"
    /\ before_cmd' = ChatSnapshot(<<>>)
    /\ UNCHANGED <<abs_fnames, abs_read_only_fnames, disk, done_messages, cur_messages,
                   original_read_only_fnames, has_repo, confirm_ask, planVars, affVars,
                   repoVars, restVars>>

\* A session starts with the read-only files of the command line in the chat
InitChat ==
    /\ original_read_only_fnames \in {{}} \cup {{n} : n \in OriginalNames}
    /\ abs_fnames = {}
    /\ abs_read_only_fnames = {abs_root_path(n) : n \in original_read_only_fnames}
    /\ done_messages = <<>>
    /\ cur_messages = <<>>
    /\ disk = AllFiles
    /\ tracked = {get_rel_fname(f) : f \in RepoFiles} \ {PlanName}
    /\ has_repo = TRUE
    /\ confirm_ask = "ask"
    /\ PlanIdle
    /\ AffIdle
    /\ RepoIdle
    /\ RestIdle
    /\ last_cmd = "none"
    /\ before_cmd = NoPre

NextChat ==
    \/ CmdAdd
    \/ CmdReadOnly
    \/ CmdDrop
    \/ CmdReset
    \/ SetMessages
    \/ TrackFile

SpecChat == InitChat /\ [][NextChat]_vars

-----------------------------------------------------------------------------
(* Claims about /drop and /reset *)

\* The file was named, by its absolute or its relative path, among the original
\* read-only files
GivenAtStartup(f) == \E n \in original_read_only_fnames : abs_root_path(n) = f

DroppedAll == last_cmd = "reset" \/ (last_cmd = "drop" /\ Strip(before_cmd.args) = <<>>)

\* C10: a bare /drop and /reset leave the editable set empty and keep of the
\* read-only set exactly the members given as original read-only files (none when
\* none were given); /reset also empties both message lists; no file leaves the disk.
C10_DropAllKeepsOriginals ==
    /\ DroppedAll
          => /\ abs_fnames = {}
             /\ abs_read_only_fnames = {f \in before_cmd.ro : GivenAtStartup(f)}
             /\ (original_read_only_fnames = {} => abs_read_only_fnames = {})
             /\ disk = before_cmd.disk
    /\ last_cmd = "reset" => done_messages = <<>> /\ cur_messages = <<>>
    /\ (last_cmd = "drop" /\ Strip(before_cmd.args) = <<>>)
          => done_messages = before_cmd.done /\ cur_messages = before_cmd.cur

\* /reset found editable files, an original read-only file, another read-only
\* file and messages in both lists
C10_Witness ==
    /\ last_cmd = "reset"
    /\ before_cmd.ed # {}
    /\ abs_read_only_fnames # {}
    /\ abs_read_only_fnames # before_cmd.ro
    /\ before_cmd.done # <<>>
    /\ before_cmd.cur # <<>>

-----------------------------------------------------------------------------
(* Claims about /add *)

\* The files the words of the last command name
NamedFiles == {abs_root_path(w) : w \in SeqToSet(parse_quoted_filenames(before_cmd.args))}

-----------------------------------------------------------------------------
(* Commands.run, /save and /load *)

\* Commands.get_commands(): "/" and the name of every cmd_ method, "_" written "-"
get_commands ==
    { <<"/", "m", "o", "d", "e", "l">>,
      <<"/", "e", "d", "i", "t", "o", "r", "-", "m", "o", "d", "e", "l">>,
      <<"/", "w", "e", "a", "k", "-", "m", "o", "d", "e", "l">>,
      <<"/", "c", "h", "a", "t", "-", "m", "o", "d", "e">>,
      <<"/", "m", "o", "d", "e", "l", "s">>,
      <<"/", "w", "e", "b">>,
      <<"/", "c", "o", "m", "m", "i", "t">>,
      <<"/", "r", "a", "i", "s", "e", "-", "p", "r">>,
      <<"/", "l", "i", "n", "t">>,
      <<"/", "c", "l", "e", "a", "r">>,
      <<"/", "r", "e", "s", "e", "t">>,
      <<"/", "t", "o", "k", "e", "n", "s">>,
      <<"/", "u", "n", "d", "o">>,
      <<"/", "d", "i", "f", "f">>,
      <<"/", "a", "d", "d">>,
      <<"/", "d", "r", "o", "p">>,
      <<"/", "g", "i", "t">>,
      <<"/", "t", "e", "s", "t">>,
      <<"/", "r", "u", "n">>,
      <<"/", "e", "x", "i", "t">>,
      <<"/", "q", "u", "i", "t">>,
      <<"/", "l", "s">>,
      <<"/", "h", "e", "l", "p">>,
      <<"/", "a", "s", "k">>,
      <<"/", "c", "o", "d", "e">>,
      <<"/", "a", "r", "c", "h", "i", "t", "e", "c", "t">>,
      <<"/", "c", "o", "n", "t", "e", "x", "t">>,
      <<"/", "v", "o", "i", "c", "e">>,
      <<"/", "p", "a", "s", "t", "e">>,
      <<"/", "r", "e", "a", "d", "-", "o", "n", "l", "y">>,
      <<"/", "m", "a", "p">>,
      <<"/", "m", "a", "p", "-", "r", "e", "f", "r", "e", "s", "h">>,
      <<"/", "s", "e", "t", "t", "i", "n", "g", "s">>,
      <<"/", "l", "o", "a", "d">>,
      <<"/", "s", "a", "v", "e">>,
      <<"/", "m", "u", "l", "t", "i", "l", "i", "n", "e", "-", "m", "o", "d", "e">>,
      <<"/", "c", "o", "p", "y">>,
      <<"/", "r", "e", "p", "o", "r", "t">>,
      <<"/", "e", "d", "i", "t", "o", "r">>,
      <<"/", "e", "d", "i", "t">>,
      <<"/", "t", "h", "i", "n", "k", "-", "t", "o", "k", "e", "n", "s">>,
      <<"/", "r", "e", "a", "s", "o", "n", "i", "n", "g", "-", "e", "f", "f", "o", "r", "t">>,
      <<"/", "s", "o", "l", "v", "e", "-", "j", "i", "r", "a">>,
      <<"/", "p", "l", "a", "n", "-", "i", "m", "p", "l", "e", "m", "e", "n", "t", "a", "t", "i", "o", "n">>,
      <<"/", "c", "o", "d", "e", "-", "f", "r", "o", "m", "-", "p", "l", "a", "n">>,
      <<"/", "c", "o", "p", "y", "-", "c", "o", "n", "t", "e", "x", "t">>,
      <<"/", "c", "l", "e", "a", "n", "-", "c", "o", "d", "e">> }

\* str.strip() on a line of a file: blanks and the newline go
RECURSIVE StripLine(_)
StripLine(s) ==
    IF s # <<>> /\ Head(s) \in {" ", "\n"} THEN StripLine(Tail(s))
    ELSE IF s # <<>> /\ s[Len(s)] \in {" ", "\n"} THEN StripLine(SubSeq(s, 1, Len(s) - 1))
    ELSE s

\* Commands.matching_commands(inp) for an input with a first word: the commands
\* the first word is a prefix of, the first word, and the stripped rest
matching_commands(inp) ==
    LET first_word == Head(SplitWords(Strip(inp), <<>>))
    IN [matching_commands |-> {c \in get_commands : StartsWith(c, first_word)},
        first_word |-> first_word,
        rest_inp |-> Strip(SubSeq(inp, Len(first_word) + 1, Len(inp)))]

\* Commands.run handing a command to do_run only when it is the one match
RunCommandUniqueOnly(inp) ==
    IF inp # <<>> /\ Head(inp) = "!" THEN <<"/", "r", "u", "n">>
    ELSE IF SplitWords(Strip(inp), <<>>) = <<>> THEN <<>>
    ELSE LET res == matching_commands(inp)
         IN IF Cardinality(res.matching_commands) = 1
            THEN CHOOSE c \in res.matching_commands : TRUE
            ELSE <<>>

\* The command Commands.run hands to do_run, <<>> when it runs none
RunCommand(inp) ==
    IF inp # <<>> /\ Head(inp) = "!" THEN <<"/", "r", "u", "n">>
    ELSE IF SplitWords(Strip(inp), <<>>) = <<>> THEN <<>>
    ELSE LET res == matching_commands(inp)
         IN IF Cardinality(res.matching_commands) = 1
            THEN CHOOSE c \in res.matching_commands : TRUE
            ELSE IF res.first_word \in res.matching_commands THEN res.first_word
            ELSE <<>>

\* Commands.run(inp) on the chat st = [ed, ro, dk, done, cur], for the commands
\* that change the chat's files; cx = [trk, repo, orig, create] is what they read.
\* Another command leaves st as it is.
run(inp, st, cx) ==
    LET command == RunCommand(inp)
        args == IF command = <<>> THEN <<>> ELSE matching_commands(inp).rest_inp
    IN IF command = <<"/", "a", "d", "d">>
       THEN LET r == cmd_add(args, st.ed, st.ro, st.dk, cx.trk, cx.repo, cx.create)
            IN [st EXCEPT !.ed = r.ed, !.ro = r.ro, !.dk = r.dk]
       ELSE IF command = <<"/", "r", "e", "a", "d", "-", "o", "n", "l", "y">>
       THEN LET r == cmd_read_only(args, st.ed, st.ro, st.dk)
            IN [st EXCEPT !.ed = r.ed, !.ro = r.ro]
       ELSE IF command = <<"/", "d", "r", "o", "p">>
       THEN LET r == cmd_drop(args, st.ed, st.ro, cx.orig)
            IN [st EXCEPT !.ed = r.ed, !.ro = r.ro]
       ELSE IF command = <<"/", "r", "e", "s", "e", "t">>
       THEN LET r == cmd_reset(st.ed, st.ro, cx.orig)
            IN [st EXCEPT !.ed = r.ed, !.ro = r.ro, !.done = r.done, !.cur = r.cur]
       ELSE st

\* The lines cmd_save writes for a sorted list of files
RECURSIVE AddLines(_)
AddLines(fs) ==
    IF fs = <<>> THEN <<>>
    ELSE <<"/", "a", "d", "d", " ", " ", " ", " ", " ", " ", " ">>
         \o get_rel_fname(Head(fs)) \o <<"\n">> \o AddLines(Tail(fs))

\* A read-only file is written by its relative name when it is under coder.root,
\* by its absolute name otherwise
RECURSIVE ReadOnlyLines(_)
ReadOnlyLines(fs) ==
    IF fs = <<>> THEN <<>>
    ELSE <<"/", "r", "e", "a", "d", "-", "o", "n", "l", "y", " ">>
         \o (IF StartsWith(Head(fs), Root) THEN get_rel_fname(Head(fs)) ELSE Head(fs))
         \o <<"\n">> \o ReadOnlyLines(Tail(fs))

\* Commands.cmd_save(args): the text of the file
cmd_save(ed, ro) ==
    <<"/", "d", "r", "o", "p", "\n">> \o AddLines(Sorted(ed)) \o ReadOnlyLines(Sorted(ro))

\* f.readlines(): the text cut after each newline
RECURSIVE ReadLines(_, _)
ReadLines(text, cur) ==
    IF text = <<>> THEN (IF cur = <<>> THEN <<>> ELSE <<cur>>)
    ELSE IF Head(text) = "\n" THEN <<cur \o <<"\n">>>> \o ReadLines(Tail(text), <<>>)
    ELSE ReadLines(Tail(text), cur \o <<Head(text)>>)

\* The loop of cmd_load over the lines
RECURSIVE RunLines(_, _, _)
RunLines(lines, st, cx) ==
    IF lines = <<>> THEN st
    ELSE LET cmd == StripLine(Head(lines))
         IN IF cmd = <<>> \/ Head(cmd) = "#" THEN RunLines(Tail(lines), st, cx)
            ELSE RunLines(Tail(lines), run(cmd, st, cx), cx)

\* Commands.cmd_load(args) with the file there
cmd_load(text, st, cx) == RunLines(ReadLines(text, <<>>), st, cx)

\* What the user types after /save and /load
SessionArgs == {<<>>, <<"s">>}

SessionFrame == UNCHANGED <<original_read_only_fnames, tracked, has_repo, confirm_ask,
                            planVars, affVars, gitVars, otherVars>>

CmdSave ==
    \E args \in SessionArgs :
        /\ IF Strip(args) = <<>>
           THEN /\ UNCHANGED session_file
                /\ round_trip' = NoRoundTrip
           ELSE /\ session_file' = [exists |-> TRUE,
                                    lines |-> cmd_save(abs_fnames, abs_read_only_fnames)]
                /\ round_trip' = [stage |-> "saved", ed |-> abs_fnames,
                                  ro |-> abs_read_only_fnames]
        /\ UNCHANGED <<abs_fnames, abs_read_only_fnames, done_messages, cur_messages, disk>>
        /\ SessionFrame

\* /reset between /save and /load
SessionReset ==
    LET s == cmd_reset(abs_fnames, abs_read_only_fnames, original_read_only_fnames)
    IN /\ abs_fnames' = s.ed
       /\ abs_read_only_fnames' = s.ro
       /\ done_messages' = s.done
       /\ cur_messages' = s.cur
       /\ round_trip' = IF round_trip.stage = "saved"
                        THEN [round_trip EXCEPT !.stage = "reset"]
                        ELSE NoRoundTrip
       /\ UNCHANGED <<disk, session_file>>
       /\ SessionFrame

\* Commands.cmd_load(args).  `create` is the answer io.confirm_ask gives whenever
\* a /add of the file asks whether to create a file.
CmdLoad ==
    \E args \in SessionArgs, create \in BOOLEAN :
        /\ IF Strip(args) = <<>> \/ ~session_file.exists
           THEN /\ UNCHANGED <<abs_fnames, abs_read_only_fnames, done_messages,
                               cur_messages, disk>>
                /\ round_trip' = NoRoundTrip
           ELSE LET st == cmd_load(session_file.lines,
                                   [ed |-> abs_fnames, ro |-> abs_read_only_fnames,
                                    dk |-> disk, done |-> done_messages,
                                    cur |-> cur_messages],
                                   [trk |-> tracked, repo |-> has_repo,
                                    orig |-> original_read_only_fnames,
                                    create |-> create])
                IN /\ abs_fnames' = st.ed
                   /\ abs_read_only_fnames' = st.ro
                   /\ disk' = st.dk
                   /\ done_messages' = st.done
                   /\ cur_messages' = st.cur
                   /\ round_trip' = IF round_trip.stage = "reset"
                                    THEN [round_trip EXCEPT !.stage = "loaded"]
                                    ELSE NoRoundTrip
        /\ UNCHANGED session_file
        /\ SessionFrame

\* The files a session may hold when /save is typed
SessionEditable == {Root \o n : n \in CodeNames \cup {PlanName}}

SessionReadOnly == SessionEditable \cup {ExternalFile}

InitSession ==
    /\ abs_fnames \in SUBSET SessionEditable
    /\ abs_read_only_fnames \in SUBSET SessionReadOnly
    /\ abs_fnames \cap abs_read_only_fnames = {}
    /\ original_read_only_fnames \in {{}} \cup {{n} : n \in OriginalNames}
    /\ done_messages = <<>>
    /\ cur_messages = <<>>
    /\ disk = AllFiles
    /\ tracked = {get_rel_fname(f) : f \in RepoFiles} \ {PlanName}
    /\ has_repo = TRUE
    /\ confirm_ask = "ask"
    /\ PlanIdle
    /\ AffIdle
    /\ GitIdle
    /\ SessIdle
    /\ OtherIdle

NextSession ==
    \/ CmdSave
    \/ SessionReset
    \/ CmdLoad

SpecSession == InitSession /\ [][NextSession]_vars

-----------------------------------------------------------------------------
(* Claims about /save and /load *)

\* C12: /save F, /reset, /load F in a session with editable set E and read-only
\* set R leaves the editable set equal to E and the read-only set equal to R.
C12_SaveResetLoadRoundTrip ==
    round_trip.stage = "loaded"
        => abs_fnames = round_trip.ed /\ abs_read_only_fnames = round_trip.ro

-----------------------------------------------------------------------------
(* Commands.cmd_solve_jira *)

\* str.lower() on one character
LowerChar(c) ==
    CASE c = "A" -> "a" [] c = "B" -> "b" [] c = "C" -> "c" [] c = "D" -> "d"
      [] c = "E" -> "e" [] c = "F" -> "f" [] c = "G" -> "g" [] c = "H" -> "h"
      [] c = "I" -> "i" [] c = "J" -> "j" [] c = "K" -> "k" [] c = "L" -> "l"
      [] c = "M" -> "m" [] c = "N" -> "n" [] c = "O" -> "o" [] c = "P" -> "p"
      [] c = "Q" -> "q" [] c = "R" -> "r" [] c = "S" -> "s" [] c = "T" -> "t"
      [] c = "U" -> "u" [] c = "V" -> "v" [] c = "W" -> "w" [] c = "X" -> "x"
      [] c = "Y" -> "y" [] c = "Z" -> "z" [] OTHER -> c

\* A comparison of the words as they were typed
LowerKeepsCase(s) == s

\* parts[i].lower()
lower(s) == [k \in 1..Len(s) |-> LowerChar(s[k])]

\* args.split()
split(s) == SplitWords(s, <<>>)

\* parts.pop(i), with i counted from 1
Pop(parts, i) == SubSeq(parts, 1, i - 1) \o SubSeq(parts, i + 1, Len(parts))

PrFlags == {<<"-", "-", "w", "i", "t", "h", "-", "p", "r">>, <<"-", "p", "r">>}

CleanupFlags == {<<"-", "-", "w", "i", "t", "h", "-", "c", "o", "d", "e", "-", "c", "l", "e",
                   "a", "n", "u", "p">>, <<"-", "c", "l", "e", "a", "n", "u", "p">>}

\* The while loop of cmd_solve_jira over the words of the arguments
RECURSIVE ProcessFlags(_, _, _, _)
ProcessFlags(parts, i, with_pr, with_code_cleanup) ==
    IF i > Len(parts)
    THEN [parts |-> parts, with_pr |-> with_pr, with_code_cleanup |-> with_code_cleanup]
    ELSE LET part == lower(parts[i])
         IN IF part \in PrFlags
            THEN ProcessFlags(Pop(parts, i), i, TRUE, with_code_cleanup)
            ELSE IF part \in CleanupFlags
            THEN ProcessFlags(Pop(parts, i), i, with_pr, TRUE)
            ELSE ProcessFlags(parts, i + 1, with_pr, with_code_cleanup)

\* f"jira_issue_{issue_key_or_id}.txt"
path_to_ticket(key) == <<"j", "i", "r", "a", "_", "i", "s", "s", "u", "e", "_">> \o key \o <<
                                                                                             ".",
                                                                                             "t",
                                                                                             "x",
                                                                                             "t">>

\* os.path.splitext(p)[0] of a name without directories
splitext_root(p) ==
    LET dots == {k \in 2..Len(p) : p[k] = "."}
    IN IF dots = {} THEN p
       ELSE SubSeq(p, 1, (CHOOSE k \in dots : \A m \in dots : m <= k) - 1)

\* os.path.splitext(path_to_ticket)[0] + "_implementation_plan.md"
implementation_plan(ticket) == splitext_root(ticket) \o <<"_", "i", "m", "p", "l", "e", "m",
                                                          "e", "n", "t", "a", "t", "i", "o",
                                                          "n", "_", "p", "l", "a", "n", ".",
                                                          "m", "d">>

AddPlanMessage(key) == <<"A", "d", "d", " ", "i", "m", "p", "l", "e", "m", "e", "n", "t", "a",
                         "t", "i", "o", "n", " ", "p", "l", "a", "n", " ", "f", "o", "r", " ",
                         "J", "I", "R", "A", " ", "i", "s", "s", "u", "e", " ">> \o key

DeletePlanMessage(key) ==
    <<"D", "e", "l", "e", "t", "e", " ", "i", "m", "p", "l", "e", "m", "e", "n", "t", "a", "t",
      "i", "o", "n", " ", "p", "l", "a", "n", " ", "f", "o", "r", " ", "J", "I", "R", "A", " ",
      "i", "s", "s", "u", "e", " ">> \o key \o <<" ", "f", "r", "o", "m", " ", "g", "i", "t">>

\* os.path.exists of a name relative to the working directory, which is coder.root
Exists(path, dk) == abs_root_path(path) \in dk

\* The chat is handed to the plan's execution as it is
ChatLeftAsIs(ed, ro, orig, done, cur) ==
    [ed |-> ed, ro |-> ro, done |-> done, cur |-> cur, calls |-> <<>>]

\* self._clear_chat_history(); self._drop_all_files()
ClearedChat(ed, ro, orig, done, cur) ==
    LET s == _drop_all_files(ed, ro, orig)
    IN [ed |-> s.ed, ro |-> s.ro, done |-> <<>>, cur |-> <<>>,
        calls |-> <<[op |-> "_clear_chat_history"], [op |-> "_drop_all_files"]>>]

\* What os.remove raises when it fails
RemoveErrors == {"FileNotFoundError", "PermissionError"}

RemoveOutcomes == {"removed"} \cup RemoveErrors

\* No handler around os.remove
RemoveErrorEscapes(err) == FALSE

\* except OSError
RemoveErrorCaught(err) == err \in {"OSError", "FileNotFoundError", "PermissionError"}

\* What the user types after /solve-jira
JiraArgs ==
    {<<>>, <<" ">>, <<"K", "-", "1">>, <<"K", "-", "1", " ", "-", "-", "w", "i", "t", "h", "-",
                                         "p", "r">>, <<"-", "P", "R", " ", "K", "-", "1">>, <<
                                                                                              "-",
                                                                                              "-",
                                                                                              "W",
                                                                                              "i",
                                                                                              "t",
                                                                                              "h",
                                                                                              "-",
                                                                                              "P",
                                                                                              "r">>,
     <<"K", "-", "1", " ", "-", "c", "l", "e", "a", "n", "u", "p">>, <<"-", "p", "r", " ", "K",
                                                                       "-", "1", " ", "-", "-",
                                                                       "W", "i", "t", "h", "-",
                                                                       "C", "o", "d", "e", "-",
                                                                       "C", "l", "e", "a", "n",
                                                                       "u", "p">>, <<"k", " ",
                                                                                     "-", "P",
                                                                                     "r", " ",
                                                                                     "1">>, <<
                                                                                              "K",
                                                                                              "-",
                                                                                              "1",
                                                                                              " ",
                                                                                              "p",
                                                                                              "r">>}

JiraFrame == UNCHANGED <<original_read_only_fnames, tracked, has_repo, confirm_ask,
                         planVars, affVars, gitVars, sessVars, envVars, prVars, trkVars,
                         moreVars>>

JiraChatUnchanged ==
    UNCHANGED <<abs_fnames, abs_read_only_fnames, done_messages, cur_messages>>

\* cmd_solve_jira up to io.write_text.  `fetched` tells whether Jira() and
\* jira.get_issue_content return or raise.
SolveJiraStart ==
    \E args \in JiraArgs, fetched \in BOOLEAN :
        LET stripped == Strip(args)
            parsed == ProcessFlags(split(stripped), 1, FALSE, FALSE)
            key == IF parsed.parts # <<>> THEN Join(parsed.parts) ELSE <<>>
        IN /\ jpc = "idle"
           /\ jira_call' = [args |-> args, key |-> key, with_pr |-> parsed.with_pr,
                            with_code_cleanup |-> parsed.with_code_cleanup,
                            found |-> [ed |-> abs_fnames, ro |-> abs_read_only_fnames,
                                       done |-> done_messages, cur |-> cur_messages]]
           /\ IF stripped = <<>> \/ key = <<>>
              THEN /\ fetched
                   /\ jira_events' = <<[op |-> "tool_error"]>>
                   /\ jpc' = "returned"
                   /\ UNCHANGED disk
              ELSE IF ~fetched
              THEN /\ jira_events' = <<[op |-> "get_issue_content", key |-> key]>>
                   /\ jpc' = "raised"
                   /\ UNCHANGED disk
              ELSE /\ jira_events' = <<[op |-> "get_issue_content", key |-> key],
                                       [op |-> "write_text", file |-> path_to_ticket(key)]>>
                   /\ disk' = disk \cup {abs_root_path(path_to_ticket(key))}
                   /\ jpc' = "ticket_written"
           /\ JiraChatUnchanged
           /\ JiraFrame

\* cmd_plan_implementation(path_to_ticket), the commit of the plan, and the
\* clearing of the chat.  `planned` tells whether plan_coder.run returns, `saved`
\* whether the plan file could be written, `committed` whether repo.commit returns.
SolveJiraPlan ==
    \E planned \in BOOLEAN, saved \in BOOLEAN, committed \in BOOLEAN :
        LET key == jira_call.key
            ticket == path_to_ticket(key)
            plan == implementation_plan(ticket)
            dk == IF saved THEN disk \cup {abs_root_path(plan)} ELSE disk
            called == jira_events \o <<[op |-> "cmd_plan_implementation", file |-> ticket]>>
            plan_commit == [op |-> "commit", fnames |-> <<plan>>,
                            message |-> AddPlanMessage(key), aider_edits |-> TRUE]
            after_commit ==
                IF ~has_repo THEN called
                ELSE IF Exists(plan, dk)
                THEN called \o <<plan_commit>>
                            \o (IF committed THEN <<>> ELSE <<[op |-> "tool_error"]>>)
                ELSE called \o <<[op |-> "tool_error"]>>
            chat == ClearedChat(abs_fnames, abs_read_only_fnames,
                                original_read_only_fnames, done_messages, cur_messages)
        IN /\ jpc = "ticket_written"
           /\ ~planned => saved /\ committed
           /\ ~(has_repo /\ saved) => committed
           /\ IF ~planned
              THEN /\ jira_events' = called
                   /\ jpc' = "raised"
                   /\ UNCHANGED disk
                   /\ JiraChatUnchanged
              ELSE /\ jira_events' = after_commit \o chat.calls
                   /\ disk' = dk
                   /\ abs_fnames' = chat.ed
                   /\ abs_read_only_fnames' = chat.ro
                   /\ done_messages' = chat.done
                   /\ cur_messages' = chat.cur
                   /\ jpc' = "chat_cleared"
           /\ UNCHANGED jira_call
           /\ JiraFrame

\* self.cmd_code_from_plan(implementation_plan, switch_coder=False), which
\* returns or lets an exception of an editing session through
SolveJiraCodeFromPlan ==
    \E returned \in BOOLEAN :
        /\ jpc = "chat_cleared"
        /\ jira_events' = jira_events \o
               <<[op |-> "cmd_code_from_plan",
                  file |-> implementation_plan(path_to_ticket(jira_call.key)),
                  switch_coder |-> FALSE,
                  ed |-> abs_fnames, ro |-> abs_read_only_fnames,
                  done |-> done_messages, cur |-> cur_messages]>>
        /\ jpc' = IF returned THEN "plan_executed" ELSE "raised"
        /\ UNCHANGED <<jira_call, disk>>
        /\ JiraChatUnchanged
        /\ JiraFrame

\* The deletion of the plan file and its commit
SolveJiraDeletePlan ==
    \E outcome \in RemoveOutcomes, committed \in BOOLEAN :
        LET key == jira_call.key
            plan == implementation_plan(path_to_ticket(key))
            remove_call == [op |-> "os.remove", file |-> plan, outcome |-> outcome]
            plan_commit == [op |-> "commit", fnames |-> <<plan>>,
                            message |-> DeletePlanMessage(key), aider_edits |-> TRUE]
        IN /\ jpc = "plan_executed"
           /\ IF has_repo /\ Exists(plan, disk)
              THEN IF outcome = "removed"
                   THEN /\ jira_events' = jira_events \o <<remove_call, plan_commit>>
                               \o (IF committed THEN <<>> ELSE <<[op |-> "tool_error"]>>)
                        /\ disk' = disk \ {abs_root_path(plan)}
                        /\ jpc' = "plan_deleted"
                   ELSE /\ committed
                        /\ UNCHANGED disk
                        /\ IF RemoveErrorCaught(outcome)
                           THEN /\ jira_events' = jira_events
                                       \o <<remove_call, [op |-> "tool_error"]>>
                                /\ jpc' = "plan_deleted"
                           ELSE /\ jira_events' = jira_events \o <<remove_call>>
                                /\ jpc' = "raised"
              ELSE /\ outcome = "removed"
                   /\ committed
                   /\ UNCHANGED <<jira_events, disk>>
                   /\ jpc' = "plan_deleted"
           /\ UNCHANGED jira_call
           /\ JiraChatUnchanged
           /\ JiraFrame

\* The deletion of the ticket file
SolveJiraDeleteTicket ==
    \E outcome \in RemoveOutcomes :
        LET ticket == path_to_ticket(jira_call.key)
            remove_call == [op |-> "os.remove", file |-> ticket, outcome |-> outcome]
        IN /\ jpc = "plan_deleted"
           /\ IF outcome = "removed"
              THEN /\ jira_events' = jira_events \o <<remove_call>>
                   /\ disk' = disk \ {abs_root_path(ticket)}
                   /\ jpc' = "ticket_deleted"
              ELSE /\ UNCHANGED disk
                   /\ IF RemoveErrorCaught(outcome)
                      THEN /\ jira_events' = jira_events
                                  \o <<remove_call, [op |-> "tool_error"]>>
                           /\ jpc' = "ticket_deleted"
                      ELSE /\ jira_events' = jira_events \o <<remove_call>>
                           /\ jpc' = "raised"
           /\ UNCHANGED jira_call
           /\ JiraChatUnchanged
           /\ JiraFrame

\* if with_code_cleanup: self.cmd_clean_code("low")
SolveJiraCleanCode ==
    /\ jpc = "ticket_deleted"
    /\ jira_events' = IF jira_call.with_code_cleanup
                      THEN jira_events \o <<[op |-> "cmd_clean_code", args |-> <<"l", "o", "w">>]>>
                      ELSE jira_events
    /\ jpc' = "code_cleaned"
    /\ UNCHANGED <<jira_call, disk>>
    /\ JiraChatUnchanged
    /\ JiraFrame

\* if with_pr: self.cmd_raise_pr(); jira.set_ticket_to_review(issue_key_or_id).
\* `created` tells whether cmd_raise_pr got a pull request made, `gh_found`
\* whether raise_pr found the GitHub CLI (it raises when it does not), `moved`
\* whether set_ticket_to_review returns or raises.
SolveJiraRaisePr ==
    \E created \in BOOLEAN, gh_found \in BOOLEAN, moved \in BOOLEAN :
        /\ jpc = "code_cleaned"
        /\ IF jira_call.with_pr
           THEN IF gh_found
                THEN /\ jira_events' = jira_events \o
                            <<[op |-> "cmd_raise_pr", created |-> created],
                              [op |-> "set_ticket_to_review", key |-> jira_call.key]>>
                     /\ jpc' = IF moved THEN "returned" ELSE "raised"
                ELSE \* raise_pr raises and cmd_solve_jira ends there
                     /\ ~created /\ moved
                     /\ jira_events' = jira_events \o
                            <<[op |-> "cmd_raise_pr", created |-> FALSE]>>
                     /\ jpc' = "raised"
           ELSE /\ created /\ gh_found /\ moved
                /\ UNCHANGED jira_events
                /\ jpc' = "returned"
        /\ UNCHANGED <<jira_call, disk>>
        /\ JiraChatUnchanged
        /\ JiraFrame

\* The chat when /solve-jira is typed
InitJira ==
    /\ abs_fnames \in SUBSET {Root \o <<"a">>}
    /\ original_read_only_fnames \in {{}, {ExternalFile}}
    /\ abs_read_only_fnames \in {{}, {Root \o PlanName, ExternalFile}}
    /\ \E talked \in BOOLEAN :
          /\ done_messages = IF talked THEN <<"Test message 2">> ELSE <<>>
          /\ cur_messages = IF talked THEN <<"Test message 1">> ELSE <<>>
    /\ disk = AllFiles
    /\ tracked = {get_rel_fname(f) : f \in RepoFiles}
    /\ has_repo \in BOOLEAN
    /\ confirm_ask = "ask"
    /\ PlanIdle
    /\ AffIdle
    /\ GitIdle
    /\ RestIdle

NextJira ==
    \/ SolveJiraStart
    \/ SolveJiraPlan
    \/ SolveJiraCodeFromPlan
    \/ SolveJiraDeletePlan
    \/ SolveJiraDeleteTicket
    \/ SolveJiraCleanCode
    \/ SolveJiraRaisePr

SpecJira == InitJira /\ [][NextJira]_vars

-----------------------------------------------------------------------------
(* Claims about cmd_solve_jira *)

\* The positions in jira_events of the calls of one operation
JiraCalls(op) == {k \in 1..Len(jira_events) : jira_events[k].op = op}

\* The names the two temporary files have for the issue key of this call
TicketFile == <<"j", "i", "r", "a", "_", "i", "s", "s", "u", "e", "_">> \o jira_call.key \o <<
                                                                                              ".",
                                                                                              "t",
                                                                                              "x",
                                                                                              "t">>

PlanFile == <<"j", "i", "r", "a", "_", "i", "s", "s", "u", "e", "_">> \o jira_call.key \o <<
                                                                                            "_",
                                                                                            "i",
                                                                                            "m",
                                                                                            "p",
                                                                                            "l",
                                                                                            "e",
                                                                                            "m",
                                                                                            "e",
                                                                                            "n",
                                                                                            "t",
                                                                                            "a",
                                                                                            "t",
                                                                                            "i",
                                                                                            "o",
                                                                                            "n",
                                                                                            "_",
                                                                                            "p",
                                                                                            "l",
                                                                                            "a",
                                                                                            "n",
                                                                                            ".",
                                                                                            "m",
                                                                                            "d">>

\* The command was given an issue key and has run to its end
SolvedJira == jpc = "returned" /\ jira_call.key # <<>>

\* C13: cmd_solve_jira with an issue key writes the ticket to jira_issue_<key>.txt,
\* generates the plan from that file, clears the chat history and drops all
\* files, and then runs cmd_code_from_plan on
\* jira_issue_<key>_implementation_plan.md, in this order; when the plan's
\* execution starts the history is empty and the files are dropped.
C13_StagesInOrder ==
    /\ SolvedJira => Cardinality(JiraCalls("cmd_code_from_plan")) = 1
    /\ \A k \in JiraCalls("cmd_code_from_plan") :
          LET e == jira_events[k]
          IN /\ e.file = PlanFile
             /\ e.ed = {}
             /\ e.ro \subseteq {f \in jira_call.found.ro :
                                   f \in original_read_only_fnames}
             /\ e.done = <<>>
             /\ e.cur = <<>>
             /\ \E w, p, c, d \in 1..(k - 1) :
                   /\ w < p /\ p < c /\ c < d
                   /\ jira_events[w] = [op |-> "write_text", file |-> TicketFile]
                   /\ jira_events[p] = [op |-> "cmd_plan_implementation",
                                        file |-> TicketFile]
                   /\ jira_events[c].op = "_clear_chat_history"
                   /\ jira_events[d].op = "_drop_all_files"

\* A call with files and messages in the chat has run to its end
C13_Witness ==
    /\ SolvedJira
    /\ jira_call.found.ed # {}
    /\ jira_call.found.done # <<>>
    /\ JiraCalls("cmd_code_from_plan") # {}

\* The plan was saved, the plan was executed and both files were removed
SolvedJiraCleanly ==
    /\ SolvedJira
    /\ has_repo
    /\ \E k \in JiraCalls("commit") : jira_events[k].message = AddPlanMessage(jira_call.key)
    /\ Cardinality(JiraCalls("os.remove")) = 2
    /\ \A k \in JiraCalls("os.remove") : jira_events[k].outcome = "removed"

\* C14: with a git repository, cmd_solve_jira makes exactly three commits, each
\* with aider_edits=True: one adding the plan, one deleting the plan, and one
\* removing the ticket file (fnames [jira_issue_<key>.txt], message "Remove JIRA
\* ticket file for issue <key>").
C14_ThreeCommits ==
    SolvedJiraCleanly
        => /\ Cardinality(JiraCalls("commit")) = 3
           /\ \A k \in JiraCalls("commit") : jira_events[k].aider_edits
           /\ \E k \in JiraCalls("commit") :
                 /\ jira_events[k].fnames = <<TicketFile>>
                 /\ jira_events[k].message
                       = <<"R", "e", "m", "o", "v", "e", " ", "J", "I", "R", "A", " ", "t",
                           "i", "c", "k", "e", "t", " ", "f", "i", "l", "e", " ", "f", "o",
                           "r", " ", "i", "s", "s", "u", "e", " ">> \o jira_call.key

\* The attempts to delete the file f
Removals(f) == {k \in JiraCalls("os.remove") : jira_events[k].file = f}

\* The plan file was there after cmd_plan_implementation
PlanWasSaved ==
    \E k \in JiraCalls("commit") : jira_events[k].message = AddPlanMessage(jira_call.key)

\* C15: with a git repository, cmd_solve_jira attempts to delete the plan file
\* and the ticket file exactly once each; a deletion that fails is reported with
\* tool_error, the command goes on to the other file and does not end there.
C15_EachTempFileDeletedOnce ==
    has_repo =>
        /\ Cardinality(Removals(PlanFile)) <= 1
        /\ Cardinality(Removals(TicketFile)) <= 1
        /\ JiraCalls("os.remove") = Removals(PlanFile) \cup Removals(TicketFile)
        /\ (SolvedJira /\ PlanWasSaved
               => Cardinality(Removals(PlanFile)) = 1
                     /\ Cardinality(Removals(TicketFile)) = 1)
        /\ \A k \in JiraCalls("os.remove") :
              jira_events[k].outcome # "removed"
                  => /\ k < Len(jira_events)
                     /\ jira_events[k + 1].op = "tool_error"
        /\ jpc \in {"returned", "raised"} /\ Removals(PlanFile) # {}
               => Removals(TicketFile) # {}

\* Both deletions failed and the command ran to its end
C15_Witness ==
    /\ SolvedJira
    /\ has_repo
    /\ Cardinality(JiraCalls("os.remove")) = 2
    /\ \A k \in JiraCalls("os.remove") : jira_events[k].outcome # "removed"

\* The words of the arguments as they were typed
TypedWords == SeqToSet(SplitWords(jira_call.args, <<>>))

\* The ways the arguments of the model spell --with-pr and -pr
PrFlagSpellings == {<<"-", "-", "w", "i", "t", "h", "-", "p", "r">>, <<"-", "-", "W", "i", "t",
                                                                       "h", "-", "P", "r">>, <<
                                                                                               "-",
                                                                                               "p",
                                                                                               "r">>, <<
                                                                                                        "-",
                                                                                                        "P",
                                                                                                        "R">>, <<
                                                                                                                 "-",
                                                                                                                 "P",
                                                                                                                 "r">>}

AskedForPr == TypedWords \cap PrFlagSpellings # {}

-----------------------------------------------------------------------------
(* GitRepo.commit: attribution through the environment of the process *)

\* git config user.name
UserName == <<"Test", "User">>

\* The names the environment variables may hold when commit is called
EnvNames == {<<"Env", "Name">>}

\* The values of attribute_author and attribute_committer
AttributeValues == {"None", "True", "False"}

\* `if self.attribute_committer:`: the truth value Python gives the attribute
Truthy(v) == v = "True"

\* committer_name = f"{original_user_name} (aider)"
committer_name(user) == user \o <<"(aider)">>

\* The name git records: the environment variable when it is set, else user.name
GitName(variable, user) == IF variable.set THEN variable.value ELSE user

\* os.environ after the assignments before the try
SetCommitEnv(env, attr, aider_edits, user) ==
    [GIT_COMMITTER_NAME |-> IF Truthy(attr.attribute_committer)
                            THEN EnvValue(committer_name(user))
                            ELSE env.GIT_COMMITTER_NAME,
     GIT_AUTHOR_NAME |-> IF aider_edits /\ Truthy(attr.attribute_author)
                         THEN EnvValue(committer_name(user))
                         ELSE env.GIT_AUTHOR_NAME]

\* The environment stays as the commit needed it
EnvLeftAsSet(env, attr, call) == env

\* os.environ after the finally block
RestoreCommitEnv(env, attr, call) ==
    [GIT_COMMITTER_NAME |-> IF Truthy(attr.attribute_committer)
                            THEN (IF call.original_committer_name_env.set
                                  THEN EnvValue(call.original_committer_name_env.value)
                                  ELSE EnvUnset)
                            ELSE env.GIT_COMMITTER_NAME,
     GIT_AUTHOR_NAME |-> IF call.aider_edits /\ Truthy(attr.attribute_author)
                         THEN (IF call.original_author_name_env.set
                               THEN EnvValue(call.original_author_name_env.value)
                               ELSE EnvUnset)
                         ELSE env.GIT_AUTHOR_NAME]

EnvFrame == UNCHANGED <<chatVars, planVars, affVars, gitVars, sessVars, jiraVars,
                        prVars, trkVars, moreVars>>

CommitNotRunning == cpc \in {"idle", "returned", "raised"}

\* GitRepo(io, fnames, git_dname, attribute_author=.., attribute_committer=..)
NewGitRepo ==
    \E author \in AttributeValues, committer \in AttributeValues :
        /\ CommitNotRunning
        /\ attribution' = [attribute_author |-> author, attribute_committer |-> committer]
        /\ attribution' # attribution
        /\ cpc' = "idle"
        /\ commit_call' = NoCommitCall
        /\ last_commit' = NoCommitMade
        /\ UNCHANGED os_environ
        /\ EnvFrame

\* The user's shell exports or unsets one of the two variables
ExportEnv ==
    \E value \in {EnvUnset} \cup {EnvValue(n) : n \in EnvNames} :
        /\ CommitNotRunning
        /\ \/ os_environ' = [os_environ EXCEPT !.GIT_COMMITTER_NAME = value]
           \/ os_environ' = [os_environ EXCEPT !.GIT_AUTHOR_NAME = value]
        /\ os_environ' # os_environ
        /\ cpc' = "idle"
        /\ commit_call' = NoCommitCall
        /\ last_commit' = NoCommitMade
        /\ UNCHANGED attribution
        /\ EnvFrame

\* GitRepo.commit up to the try.  `diffs` tells whether there is something to
\* commit, `configured` whether `git config --get user.name` returns.
CommitSetEnv ==
    \E aider_edits \in BOOLEAN, diffs \in BOOLEAN, configured \in BOOLEAN :
        LET call == [aider_edits |-> aider_edits,
                     original_committer_name_env |-> os_environ.GIT_COMMITTER_NAME,
                     original_author_name_env |->
                         IF aider_edits /\ Truthy(attribution.attribute_author)
                         THEN os_environ.GIT_AUTHOR_NAME
                         ELSE EnvUnset,
                     env_before |-> os_environ,
                     outcome |-> "running"]
        IN /\ CommitNotRunning
           /\ ~diffs => configured
           /\ last_commit' = NoCommitMade
           /\ IF ~diffs
              THEN /\ commit_call' = [call EXCEPT !.outcome = "nothing to commit",
                                                  !.original_committer_name_env = EnvUnset,
                                                  !.original_author_name_env = EnvUnset]
                   /\ cpc' = "returned"
                   /\ UNCHANGED os_environ
              ELSE IF ~configured
              THEN /\ commit_call' = [call EXCEPT !.outcome = "no user.name",
                                                  !.original_committer_name_env = EnvUnset,
                                                  !.original_author_name_env = EnvUnset]
                   /\ cpc' = "raised"
                   /\ UNCHANGED os_environ
              ELSE /\ commit_call' = call
                   /\ cpc' = "env_set"
                   /\ os_environ' = SetCommitEnv(os_environ, attribution, aider_edits,
                                                 UserName)
           /\ UNCHANGED attribution
           /\ EnvFrame

\* self.repo.git.commit(cmd): it makes the commit, raises one of ANY_GIT_ERROR,
\* or raises something else
CommitRun ==
    \E result \in {"committed", "git error", "other error"} :
        /\ cpc = "env_set"
        /\ commit_call' = [commit_call EXCEPT !.outcome = result]
        /\ last_commit' = IF result = "committed"
                          THEN [made |-> TRUE,
                                author |-> GitName(os_environ.GIT_AUTHOR_NAME, UserName),
                                committer |-> GitName(os_environ.GIT_COMMITTER_NAME,
                                                      UserName)]
                          ELSE NoCommitMade
        /\ cpc' = "ran"
        /\ UNCHANGED <<os_environ, attribution>>
        /\ EnvFrame

\* The finally block, and the way commit ends
CommitFinally ==
    /\ cpc = "ran"
    /\ os_environ' = RestoreCommitEnv(os_environ, attribution, commit_call)
    /\ cpc' = IF commit_call.outcome = "other error" THEN "raised" ELSE "returned"
    /\ UNCHANGED <<attribution, commit_call, last_commit>>
    /\ EnvFrame

InitCommitEnv ==
    /\ ChatIdle
    /\ PlanIdle
    /\ AffIdle
    /\ GitIdle
    /\ RestIdle

NextCommitEnv ==
    \/ NewGitRepo
    \/ ExportEnv
    \/ CommitSetEnv
    \/ CommitRun
    \/ CommitFinally

SpecCommitEnv == InitCommitEnv /\ [][NextCommitEnv]_vars

-----------------------------------------------------------------------------
(* Claims about the attribution of commits *)

\* C17: the author of a commit made by GitRepo.commit is "<user.name> (aider)"
\* exactly when aider_edits is true and attribute_author is not False, and its
\* committer is "<user.name> (aider)" exactly when attribute_committer is not
\* False; None counts as True.
C17_AttributionUnlessFalse ==
    last_commit.made
        => /\ last_commit.author = UserName \o <<"(aider)">>
                <=> commit_call.aider_edits /\ attribution.attribute_author # "False"
           /\ last_commit.committer = UserName \o <<"(aider)">>
                <=> attribution.attribute_committer # "False"

\* C18: when GitRepo.commit has ended, whether git made the commit or not,
\* GIT_COMMITTER_NAME and GIT_AUTHOR_NAME are set or unset as they were when it
\* was called, with the values they had.
C18_EnvRestored ==
    cpc \in {"returned", "raised"} /\ commit_call.outcome # "none"
        => os_environ = commit_call.env_before

\* A failed commit of aider's edits, with one variable set before and one unset
C18_Witness ==
    /\ cpc = "returned"
    /\ commit_call.outcome = "git error"
    /\ commit_call.aider_edits
    /\ attribution = [attribute_author |-> "True", attribute_committer |-> "True"]
    /\ commit_call.env_before.GIT_COMMITTER_NAME.set
    /\ ~commit_call.env_before.GIT_AUTHOR_NAME.set

-----------------------------------------------------------------------------
(* GitRepo.raise_pr *)

MaxPrCalls == 2        \* how many times raise_pr may be called

\* How `gh --version` may end
GhVersionResults == {"exit 0", "FileNotFoundError", "CalledProcessError"}

\* The try around `gh --version`: gh_available
gh_available(result) == result = "exit 0"

\* How `git push origin -u <branch>` may end: exit status 0, a message on stderr
\* with a non-zero exit status, or a SubprocessError
PushResults == {"exit 0", "Authentication failed", "could not read Username",
                "Connection timed out", "rejected", "SubprocessError"}

\* GitRepo.push_commited_changes: the pair (success, error_message)
push_commited_changes(result) ==
    IF result = "exit 0" THEN [success |-> TRUE, error_message |-> "None"]
    ELSE IF result = "Authentication failed"
    THEN [success |-> FALSE,
          error_message |-> "Git authentication failed. Please check your credentials."]
    ELSE IF result = "could not read Username"
    THEN [success |-> FALSE,
          error_message |-> "Git credentials not found. Please configure your git credentials."]
    ELSE IF result = "Connection timed out"
    THEN [success |-> FALSE,
          error_message |-> "Network error while pushing to remote. Please check your connection."]
    ELSE IF result = "SubprocessError"
    THEN [success |-> FALSE, error_message |-> "Error executing git push command"]
    ELSE [success |-> FALSE, error_message |-> "Git push failed"]

\* The exit status of `gh pr create`
CreateReturnCodes == {0, 1}

PrFrame == UNCHANGED <<chatVars, planVars, affVars, gitVars, sessVars, jiraVars,
                       envVars, trkVars, moreVars>>

\* raise_pr up to the end of the check for the GitHub CLI
RaisePrCheckGh ==
    \E result \in GhVersionResults :
        /\ prpc \in {"idle", "returned", "raised"}
        /\ pr_calls < MaxPrCalls
        /\ pr_calls' = pr_calls + 1
        /\ pr_runs' = pr_runs \o <<[call |-> pr_calls + 1, cmd |-> "gh --version",
                                    result |-> result]>>
        /\ IF gh_available(result)
           THEN /\ prpc' = "gh_available"
                /\ pr_result' = "none"
           ELSE /\ prpc' = "raised"
                /\ pr_result' = "Exception: Failed to raise PR."
        /\ PrFrame

\* self.push_commited_changes(branch_name=compare_branch.name)
RaisePrPush ==
    \E result \in PushResults :
        /\ prpc = "gh_available"
        /\ pr_runs' = pr_runs \o <<[call |-> pr_calls, cmd |-> "git push",
                                    result |-> result]>>
        /\ IF push_commited_changes(result).success
           THEN /\ prpc' = "pushed"
                /\ UNCHANGED pr_result
           ELSE /\ prpc' = "returned"
                /\ pr_result' = "False"
        /\ UNCHANGED pr_calls
        /\ PrFrame

\* subprocess.run(["gh", "pr", "create", ...]) and the value returned
RaisePrCreate ==
    \E returncode \in CreateReturnCodes :
        /\ prpc = "pushed"
        /\ pr_runs' = pr_runs \o <<[call |-> pr_calls, cmd |-> "gh pr create",
                                    result |-> returncode]>>
        /\ pr_result' = IF returncode = 0 THEN "True" ELSE "False"
        /\ prpc' = "returned"
        /\ UNCHANGED pr_calls
        /\ PrFrame

InitPr ==
    /\ ChatIdle
    /\ PlanIdle
    /\ AffIdle
    /\ GitIdle
    /\ RestIdle

NextPr ==
    \/ RaisePrCheckGh
    \/ RaisePrPush
    \/ RaisePrCreate

SpecPr == InitPr /\ [][NextPr]_vars

-----------------------------------------------------------------------------
(* Claims about GitRepo.raise_pr *)

\* The commands the call in progress, or the last call, has run
RunsOfCall == {k \in 1..Len(pr_runs) : pr_runs[k].call = pr_calls}

PrCreated ==
    \E k \in RunsOfCall : pr_runs[k].cmd = "gh pr create" /\ pr_runs[k].result = 0

PushFailed ==
    \E k \in RunsOfCall : pr_runs[k].cmd = "git push" /\ pr_runs[k].result # "exit 0"

\* C19: raise_pr returns True exactly when `gh pr create` succeeded; when the
\* push fails, `gh pr create` exits non-zero or the GitHub CLI is not there it
\* returns False and does not raise; `gh pr create` is not run after a failed push.
C19_FalseOnEveryFailure ==
    /\ prpc # "raised"
    /\ prpc = "returned" => (pr_result = "True" <=> PrCreated)
    /\ prpc = "returned" => pr_result \in {"True", "False"}
    /\ PushFailed => \A k \in RunsOfCall : pr_runs[k].cmd # "gh pr create"

-----------------------------------------------------------------------------
(* GitRepo.get_tracked_files *)

\* The files of a tree or of the index: the blobs of commit.tree.traverse(),
\* the paths of index.entries
FilesOf(tree) == {f \in GitFiles : tree[f] # Absent}

\* GitRepo.get_tracked_files with the commit h at the head (0 when the
\* repository has no commit): the list returned and self.tree_files afterwards.
\* On a hit `files` is the very set the cache holds, so files.update() of the
\* staged files changes the cached set too; on a miss the cache gets a copy.
get_tracked_files(cache, h, cs, idx, ign) ==
    LET staged == FilesOf(idx)
        hit == h # 0 /\ h \in DOMAIN cache
        files == IF h = 0 THEN staged
                 ELSE IF hit THEN cache[h] \cup staged
                 ELSE FilesOf(cs[h].tree) \cup staged
        cached == IF h = 0 THEN cache
                  ELSE [c \in DOMAIN cache \cup {h} |->
                           IF c # h THEN cache[c]
                           ELSE IF hit THEN cache[h] \cup staged
                           ELSE FilesOf(cs[h].tree)]
    IN [res |-> {f \in files : f \notin ign}, tree_files |-> cached]

TrackedFrame == UNCHANGED <<chatVars, planVars, affVars, origin_head, aider_commit_hashes,
                            last_cmd, before_cmd, sessVars, jiraVars, envVars, prVars,
                            moreVars>>

\* A new file is written and staged: repo.git.add(fname)
StageFile ==
    \E f \in GitFiles :
        /\ index[f] = Absent
        /\ index' = [index EXCEPT ![f] = "first content"]
        /\ worktree' = [worktree EXCEPT ![f] = "first content"]
        /\ UNCHANGED <<commits, head, trkVars>>
        /\ TrackedFrame

\* git rm --cached fname: the file leaves the index and stays on disk
UnstageFile ==
    \E f \in GitFiles :
        /\ index[f] # Absent
        /\ index' = [index EXCEPT ![f] = Absent]
        /\ UNCHANGED <<commits, head, worktree, trkVars>>
        /\ TrackedFrame

\* git commit of the index
CommitIndex ==
    /\ Len(commits) < MaxCommits
    /\ IF head = 0 THEN TRUE ELSE index # commits[head].tree
    /\ commits' = Append(commits, Commit(head, FALSE, index))
    /\ head' = Len(commits) + 1
    /\ UNCHANGED <<index, worktree, trkVars>>
    /\ TrackedFrame

\* A call of GitRepo.get_tracked_files
GetTrackedFiles ==
    LET r == get_tracked_files(tree_files, head, commits, index, ignored)
    IN /\ tree_files' = r.tree_files
       /\ tracked_files' = [given |-> TRUE, files |-> r.res, head |-> head,
                            index |-> index]
       /\ UNCHANGED <<commits, head, index, worktree, ignored>>
       /\ TrackedFrame

InitTracked ==
    /\ ChatIdle
    /\ PlanIdle
    /\ AffIdle
    /\ SessIdle
    /\ JiraIdle
    /\ EnvIdle
    /\ PrIdle
    /\ commits \in {<<>>, <<Commit(0, FALSE, FirstTree)>>}
    /\ head = Len(commits)
    /\ index = IF head = 0 THEN [f \in GitFiles |-> Absent] ELSE commits[head].tree
    /\ worktree = index
    /\ origin_head = 0
    /\ aider_commit_hashes = {}
    /\ last_cmd = "none"
    /\ before_cmd = NoPre
    /\ tree_files = <<>>
    /\ ignored \in {{}, {"g"}}
    /\ tracked_files = NoAnswer
    /\ MoreIdle

NextTracked ==
    \/ StageFile
    \/ UnstageFile
    \/ CommitIndex
    \/ GetTrackedFiles

SpecTracked == InitTracked /\ [][NextTracked]_vars

-----------------------------------------------------------------------------
(* Claims about GitRepo.get_tracked_files *)

\* The files of the head commit's tree as the call found it
AnswerHeadFiles ==
    IF tracked_files.head = 0 THEN {} ELSE FilesOf(commits[tracked_files.head].tree)

\* C20: every call of get_tracked_files returns the files of the head commit's
\* tree and of the index, without the ignored ones, whatever calls came before:
\* a file staged since the last commit is returned, a file in neither is not.
C20_TrackedIsHeadAndIndex ==
    tracked_files.given
        => tracked_files.files
              = {f \in AnswerHeadFiles \cup FilesOf(tracked_files.index) : f \notin ignored}

-----------------------------------------------------------------------------
(* /undo in a repository whose first commit holds both files *)

BothTree == [f \in GitFiles |-> "first content"]

InitUndo ==
    /\ ChatFilesIdle
    /\ PlanIdle
    /\ AffIdle
    /\ RestIdle
    /\ has_repo \in BOOLEAN
    /\ commits = <<Commit(0, FALSE, BothTree)>>
    /\ head = 1
    /\ index = BothTree
    /\ worktree = BothTree
    /\ origin_head = 0
    /\ aider_commit_hashes = {}
    /\ last_cmd = "none"
    /\ before_cmd = NoPre

SpecUndo == InitUndo /\ [][NextGit]_vars

-----------------------------------------------------------------------------
(* Claims about /undo that does not move HEAD *)

\* C27: when cmd_undo does not move HEAD, because it refuses or because it
\* aborts after a file could not be restored from HEAD~1, the index and the
\* working tree are as they were before the command.
C27_FailedUndoLeavesTree ==
    last_cmd \in {"undo: refused", "undo: aborting undo"}
        => /\ head = before_cmd.head
           /\ index = before_cmd.index
           /\ worktree = before_cmd.worktree

-----------------------------------------------------------------------------
(* Claims about the sessions of /code-from-plan *)

\* C28: when the plan file exists and no session raises, cmd_code_from_plan has
\* run at least one editing session by the time it has reported
\* "Plan execution completed!", also when the step-count reply is the integer 0
\* or a negative integer.
C28_SessionBeforeCompleted ==
    (Asked /\ NoSessionRaised /\ Said("Plan execution completed!"))
        => Len(Sessions(events)) >= 1

-----------------------------------------------------------------------------
(* Claims about the ticket after /solve-jira --with-pr *)

\* C29: cmd_solve_jira calls jira.set_ticket_to_review only after a
\* cmd_raise_pr that created the pull request; when the creation failed the
\* ticket is not moved to review.
C29_ReviewOnlyAfterPr ==
    \A k \in 1..Len(jira_events) :
        jira_events[k].op = "set_ticket_to_review"
            => \E j \in 1..(k - 1) :
                  /\ jira_events[j].op = "cmd_raise_pr"
                  /\ jira_events[j].created

-----------------------------------------------------------------------------
(* cmd_clean_code: the loop over the modified code files *)

\* The modified code files get_changed_files may name, in its order
CodeFileLists == {<<>>, <<<<"a">>>>, <<<<"a", " ", "b">>>>, <<<<"a">>, <<"a", " ", "b">>>>}

Cleaned(file, status) == [kind |-> "session", file |-> file, status |-> status]
Skipped(file) == [kind |-> "skipped", file |-> file]
ErrorProcessing(file) == [kind |-> "Error processing", file |-> file]

\* `added_file not in exclude_from_drop` of _run_new_coder when the caller
\* passes exclude_from_drop=True: the test is evaluated once per in-chat file,
\* and `x not in True` raises TypeError.
NotInTrue(inchat) == IF inchat = <<>> THEN "evaluated" ELSE "TypeError"

CleanFrame == UNCHANGED <<original_read_only_fnames, done_messages, cur_messages, tracked,
                          has_repo, pc, plan_path, reply, step_count, step_i, step_j,
                          switch_coder, events, last_session, affVars, gitVars, sessVars,
                          jiraVars, envVars, prVars, trkVars, runVars, ignVars>>

\* cmd_clean_code up to the with-block: the early returns (no repository, no
\* modified code file), then __enter__.
CleanCodeStart ==
    /\ clean_pc = "idle"
    /\ IF ~has_repo \/ code_files = <<>>
       THEN /\ clean_pc' = "returned"
            /\ UNCHANGED <<confirm_ask, original_confirm_ask>>
       ELSE /\ clean_pc' = "loop"
            /\ original_confirm_ask' = confirm_ask
            /\ confirm_ask' = "auto"
    /\ UNCHANGED <<abs_fnames, abs_read_only_fnames, disk, code_files, clean_events>>
    /\ CleanFrame

\* One pass of `for file_path in code_files`.  The session may delete the file
\* the loop visits next; a KeyboardInterrupt is not an Exception and leaves the
\* with-block.
CleanCodeFile ==
    /\ clean_pc = "loop"
    /\ code_files # <<>>
    /\ LET file_path == Head(code_files)
           abs_path == Root \o file_path
       IN IF abs_path \notin disk
          THEN /\ clean_events' = Append(clean_events, Skipped(file_path))
               /\ clean_pc' = "loop"
               /\ UNCHANGED <<abs_fnames, abs_read_only_fnames, disk, confirm_ask>>
          ELSE \E create \in BOOLEAN, added \in SessionAdds, deletes \in BOOLEAN,
                  status \in {"returned", "Exception", "KeyboardInterrupt"} :
                  LET a == cmd_add(file_path, abs_fnames, abs_read_only_fnames, disk,
                                   tracked, has_repo, create)
                      ed == IF status = "returned" THEN a.ed \cup added ELSE a.ed
                      inchat == get_inchat_relative_files(ed)
                      d == cmd_drop(<<>>, ed, a.ro, original_read_only_fnames)
                      gone == IF deletes /\ Len(code_files) > 1
                              THEN {Root \o code_files[2]} ELSE {}
                  IN /\ disk' = a.dk \ gone
                     /\ IF status = "returned" /\ NotInTrue(inchat) = "evaluated"
                        THEN /\ abs_fnames' = d.ed
                             /\ abs_read_only_fnames' = d.ro
                             /\ clean_events' =
                                    Append(clean_events, Cleaned(file_path, status))
                        ELSE /\ abs_fnames' = ed
                             /\ abs_read_only_fnames' = a.ro
                             /\ clean_events' = clean_events \o
                                    IF status = "KeyboardInterrupt"
                                    THEN <<Cleaned(file_path, status)>>
                                    ELSE <<Cleaned(file_path, status),
                                           ErrorProcessing(file_path)>>
                     /\ IF status = "KeyboardInterrupt"
                        THEN /\ clean_pc' = "KeyboardInterrupt"
                             /\ confirm_ask' = AutoConfirmExit(original_confirm_ask)
                        ELSE /\ clean_pc' = "loop"
                             /\ UNCHANGED confirm_ask
    /\ code_files' = Tail(code_files)
    /\ UNCHANGED original_confirm_ask
    /\ CleanFrame

\* The loop is over: __exit__, and the command returns.
CleanCodeEnd ==
    /\ clean_pc = "loop"
    /\ code_files = <<>>
    /\ clean_pc' = "returned"
    /\ confirm_ask' = AutoConfirmExit(original_confirm_ask)
    /\ UNCHANGED <<abs_fnames, abs_read_only_fnames, disk, code_files, clean_events,
                   original_confirm_ask>>
    /\ CleanFrame

InitClean ==
    /\ abs_fnames \in SUBSET {Root \o <<"a">>, Root \o PlanName}
    /\ abs_read_only_fnames \in {{}, {ExternalFile}}
    /\ original_read_only_fnames = {}
    /\ done_messages = <<>>
    /\ cur_messages = <<>>
    /\ disk = AllFiles
    /\ tracked = {get_rel_fname(f) : f \in RepoFiles}
    /\ has_repo \in BOOLEAN
    /\ confirm_ask = "ask"
    /\ pc = "off"
    /\ plan_path = <<>>
    /\ reply = None
    /\ step_count = 0
    /\ step_i = 0
    /\ step_j = 0
    /\ switch_coder = FALSE
    /\ original_confirm_ask = "ask"
    /\ events = <<>>
    /\ last_session = NoSession
    /\ AffIdle
    /\ GitIdle
    /\ SessIdle
    /\ JiraIdle
    /\ EnvIdle
    /\ PrIdle
    /\ TrackedIdle
    /\ clean_pc = "idle"
    /\ code_files \in CodeFileLists
    /\ clean_events = <<>>
    /\ RunIdle
    /\ IgnoreIdle

NextClean ==
    \/ CleanCodeStart
    \/ CleanCodeFile
    \/ CleanCodeEnd

SpecClean == InitClean /\ [][NextClean]_vars

-----------------------------------------------------------------------------
(* Claims about cmd_clean_code *)

\* C30: in cmd_clean_code no "Error processing <file>" message is reported for
\* a modified code file whose cleanup session completed without raising.
C30_NoErrorAfterCleanSession ==
    \A k \in 1..Len(clean_events) :
        clean_events[k].kind = "Error processing"
            => ~\E j \in 1..Len(clean_events) :
                    /\ clean_events[j] = Cleaned(clean_events[k].file, "returned")

-----------------------------------------------------------------------------
(* The two commands that run under _with_auto_confirm *)

\* Either /code-from-plan or /clean-code is typed.
InitAutoConfirm == InitPlan \/ InitClean

NextAutoConfirm == NextPlan \/ NextClean

SpecAutoConfirm == InitAutoConfirm /\ [][NextAutoConfirm]_vars

InsideWith == pc \in {"loop", "retry", "one_go"} \/ clean_pc = "loop"

CommandOver ==
    \/ pc \in {"returned", "SwitchCoder", "Exception"}
    \/ clean_pc \in {"returned", "KeyboardInterrupt"}

-----------------------------------------------------------------------------
(* Claims about the two file sets of the chat *)

\* C25: after any sequence of /add, /read-only, /drop and /reset no path is in
\* both the editable set abs_fnames and the read-only set abs_read_only_fnames.
C25_EditableReadOnlyDisjoint == abs_fnames \cap abs_read_only_fnames = {}

\* /read-only <file> has just moved an editable file to the read-only set
C25_MovedToReadOnly ==
    /\ last_cmd = "read-only"
    /\ Strip(before_cmd.args) # <<>>
    /\ before_cmd.ed \cap abs_read_only_fnames # {}

-----------------------------------------------------------------------------
(* Commands.run and do_run; the loop of cmd_load *)

\* the tool_error of Commands.run, "none" when it reports none
RunError(inp) ==
    IF inp # <<>> /\ Head(inp) = "!" THEN "none"
    ELSE IF SplitWords(Strip(inp), <<>>) = <<>> THEN "none"
    ELSE LET res == matching_commands(inp)
         IN IF Cardinality(res.matching_commands) = 1 THEN "none"
            ELSE IF res.first_word \in res.matching_commands THEN "none"
            ELSE IF Cardinality(res.matching_commands) > 1 THEN "Ambiguous command"
            ELSE "Invalid command"

\* How a handler can end.  cmd_model raises SwitchCoder; raise_pr raises
\* Exception("Failed to raise PR.") when gh is missing, and Jira._make_request
\* raises Exception when the request fails; repo.repo.active_branch and
\* get_changed_files raise errors of ANY_GIT_ERROR outside any try.
HandlerEnds(command) ==
    IF command = <<"/", "m", "o", "d", "e", "l">> THEN {"SwitchCoder"}
    ELSE IF command = <<"/", "r", "a", "i", "s", "e", "-", "p", "r">> THEN {"returned", "Exception", "GitError"}
    ELSE IF command = <<"/", "s", "o", "l", "v", "e", "-", "j", "i", "r", "a">> THEN {"returned", "Exception"}
    ELSE IF command = <<"/", "c", "l", "e", "a", "n", "-", "c", "o", "d", "e">> THEN {"returned", "GitError"}
    ELSE {"returned"}

\* do_run catching every exception of the handler
DoRunCatchesAll(end) ==
    [raised |-> "none", said |-> IF end = "returned" THEN "none" ELSE "Unable to complete"]

\* do_run: try: return cmd_method(args); except ANY_GIT_ERROR: tool_error(...)
do_run(end) ==
    IF end = "GitError" THEN [raised |-> "none", said |-> "Unable to complete"]
    ELSE IF end = "returned" THEN [raised |-> "none", said |-> "none"]
    ELSE [raised |-> end, said |-> "none"]

\* The ends Commands.run(inp) can take
RunEnds(inp) == IF RunCommand(inp) = <<>> THEN {"none"} ELSE HandlerEnds(RunCommand(inp))

\* What Commands.run(inp) did; `line` is the line of the loaded file the input
\* came from, 0 when it was typed
Ran(inp, end, line) ==
    LET r == IF end = "none" THEN [raised |-> "none", said |-> "none"] ELSE do_run(end)
    IN [inp |-> inp, command |-> RunCommand(inp), error |-> RunError(inp), end |-> end,
        raised |-> r.raised, said |-> r.said, line |-> line]

\* `except SwitchCoder` around self.run(cmd) in cmd_load
LoadCatches(raised) == raised = "SwitchCoder"

NL == <<"\n">>

RECURSIVE FileText(_)
FileText(cmds) == IF cmds = <<>> THEN <<>> ELSE Head(cmds) \o NL \o FileText(Tail(cmds))

\* What the user types
TypedInputs ==
    { <<"/", "a", "d", "d", " ", "a">>, <<"/", "a", "d", " ", "p">>, <<"/", "c", "o", "d", "e",
                                                                       " ", "x">>, <<"/", "c",
                                                                                     "o">>, <<
                                                                                              "/",
                                                                                              "x",
                                                                                              "y",
                                                                                              "z">>, <<
                                                                                                       "!",
                                                                                                       "l",
                                                                                                       "s">>, <<
                                                                                                                "/",
                                                                                                                "m",
                                                                                                                "o",
                                                                                                                "d",
                                                                                                                "e",
                                                                                                                "l",
                                                                                                                " ",
                                                                                                                "x">>,
      <<"/", "r", "a", "i", "s", "e", "-", "p", "r">>, <<"/", "s", "o", "l", "v", "e", "-",
                                                         "j", "i", "r", "a", " ", "K", "-", "1">>, <<
                                                                                                     "/",
                                                                                                     "d",
                                                                                                     "r",
                                                                                                     "o",
                                                                                                     "p">>, <<
                                                                                                              "/",
                                                                                                              "c",
                                                                                                              "l",
                                                                                                              "e",
                                                                                                              "a",
                                                                                                              "n",
                                                                                                              "-",
                                                                                                              "c",
                                                                                                              "o",
                                                                                                              "d",
                                                                                                              "e">>,
      <<"/", "r", "e", "a", "d", "-", "o", "n", "l", "y", " ", "a">> }

\* The files /load is given
LoadTexts ==
    { FileText(<<<<"/", "d", "r", "o", "p">>, <<"/", "a", "d", "d", " ", "a">>, <<>>, <<"#",
                                                                                        " ", "c">>, <<
                                                                                                      "/",
                                                                                                      "r",
                                                                                                      "e",
                                                                                                      "a",
                                                                                                      "d",
                                                                                                      "-",
                                                                                                      "o",
                                                                                                      "n",
                                                                                                      "l",
                                                                                                      "y",
                                                                                                      " ",
                                                                                                      "p">>>>),
      FileText(<<<<"/", "m", "o", "d", "e", "l", " ", "x">>, <<"/", "a", "d", "d", " ", "a">>>>),
      FileText(<<<<"/", "m", "o", "d", "e", "l", " ", "x">>, <<"/", "r", "a", "i", "s", "e",
                                                               "-", "p", "r">>, <<"/", "a",
                                                                                  "d", "d",
                                                                                  " ", "a">>>>),
      FileText(<<<<" ", " ", "#", " ", "c">>, <<" ", "/", "a", "d", " ", "a", " ">>, <<"/",
                                                                                       "x",
                                                                                       "y", "z">>>>),
      FileText(<<<<"/", "c", "l", "e", "a", "n", "-", "c", "o", "d", "e">>>>) \o <<"/", "d",
                                                                                   "r", "o",
                                                                                   "p", " ", "a">> }

TheChat == [ed |-> abs_fnames, ro |-> abs_read_only_fnames, dk |-> disk,
            done |-> done_messages, cur |-> cur_messages]

Reads(create) == [trk |-> tracked, repo |-> has_repo, orig |-> original_read_only_fnames,
                  create |-> create]

SetChat(st) ==
    /\ abs_fnames' = st.ed
    /\ abs_read_only_fnames' = st.ro
    /\ disk' = st.dk
    /\ done_messages' = st.done
    /\ cur_messages' = st.cur

RunFrame == UNCHANGED <<original_read_only_fnames, tracked, has_repo, confirm_ask, planVars,
                        affVars, gitVars, sessVars, jiraVars, envVars, prVars, trkVars,
                        cleanVars, ignVars>>

TypedRuns == SelectSeq(run_log, LAMBDA e : e.line = 0)

\* Commands.run(inp) for an input typed at the prompt
RunTyped ==
    /\ run_pc = "idle"
    /\ Len(TypedRuns) < MaxRuns
    /\ \E inp \in TypedInputs, create \in BOOLEAN :
          /\ create => RunCommand(inp) = <<"/", "a", "d", "d">>
          /\ \E end \in RunEnds(inp) :
                /\ run_log' = Append(run_log, Ran(inp, end, 0))
                /\ SetChat(IF end = "returned" THEN run(inp, TheChat, Reads(create))
                           ELSE TheChat)
    /\ UNCHANGED <<run_pc, load_file, load_lines>>
    /\ RunFrame

\* /load <file> as the first input of the session: cmd_load up to the loop
LoadStart ==
    /\ run_pc = "idle"
    /\ run_log = <<>>
    /\ \E text \in LoadTexts :
          /\ load_file' = ReadLines(text, <<>>)
          /\ load_lines' = ReadLines(text, <<>>)
    /\ run_pc' = "loading"
    /\ UNCHANGED <<abs_fnames, abs_read_only_fnames, disk, done_messages, cur_messages,
                   run_log>>
    /\ RunFrame

\* One pass of `for cmd in commands`.  An exception that cmd_load does not catch
\* leaves the loop, cmd_load and the Commands.run that called it.
LoadLine ==
    /\ run_pc = "loading"
    /\ load_lines # <<>>
    /\ LET cmd == StripLine(Head(load_lines))
           line == Len(load_file) - Len(load_lines) + 1
       IN IF cmd = <<>> \/ Head(cmd) = "#"
          THEN UNCHANGED <<abs_fnames, abs_read_only_fnames, disk, done_messages,
                           cur_messages, run_log, run_pc>>
          ELSE \E create \in BOOLEAN, end \in RunEnds(cmd) :
                  LET e == Ran(cmd, end, line)
                  IN /\ create => RunCommand(cmd) = <<"/", "a", "d", "d">>
                     /\ SetChat(IF end = "returned" THEN run(cmd, TheChat, Reads(create))
                                ELSE TheChat)
                     /\ IF e.raised = "none"
                        THEN /\ run_log' = Append(run_log, e)
                             /\ UNCHANGED run_pc
                        ELSE IF LoadCatches(e.raised)
                        THEN /\ run_log' = Append(run_log,
                                    [e EXCEPT !.raised = "none",
                                              !.said = "only supported in interactive mode"])
                             /\ UNCHANGED run_pc
                        ELSE /\ run_log' = Append(run_log, e)
                             /\ run_pc' = "raised"
    /\ load_lines' = Tail(load_lines)
    /\ UNCHANGED load_file
    /\ RunFrame

\* The loop is over, cmd_load returns
LoadEnd ==
    /\ run_pc = "loading"
    /\ load_lines = <<>>
    /\ run_pc' = "loaded"
    /\ UNCHANGED <<abs_fnames, abs_read_only_fnames, disk, done_messages, cur_messages,
                   load_file, load_lines, run_log>>
    /\ RunFrame

InitRun ==
    /\ ChatIdle
    /\ PlanIdle
    /\ AffIdle
    /\ GitIdle
    /\ SessIdle
    /\ JiraIdle
    /\ EnvIdle
    /\ PrIdle
    /\ TrackedIdle
    /\ CleanIdle
    /\ IgnoreIdle
    /\ run_pc = "idle"
    /\ load_file = <<>>
    /\ load_lines = <<>>
    /\ run_log = <<>>

NextRun ==
    \/ RunTyped
    \/ LoadStart
    \/ LoadLine
    \/ LoadEnd

SpecRun == InitRun /\ [][NextRun]_vars

-----------------------------------------------------------------------------
(* Claims about Commands.run and cmd_load *)

RunLog == {run_log[k] : k \in 1..Len(run_log)}

\* the commands the first word of the input is a prefix of
PrefixOf(inp) ==
    LET words == SplitWords(Strip(inp), <<>>)
    IN IF words = <<>> THEN {} ELSE {c \in get_commands : StartsWith(c, Head(words))}

\* the first word of the input is a command name
NamesCommand(inp) ==
    LET words == SplitWords(Strip(inp), <<>>)
    IN words # <<>> /\ Head(words) \in get_commands

\* C21: no error raised inside a command handler leaves Commands.run, except
\* SwitchCoder: it is caught and reported as a message, also for /solve-jira
\* (a Jira request fails) and /raise-pr (the GitHub CLI is missing).
C21_OnlySwitchCoderEscapes ==
    /\ run_pc # "raised"
    /\ \A e \in RunLog : e.raised \in {"none", "SwitchCoder"}

\* C22: cmd_load runs the commands of the file in file order, skipping blank
\* lines and lines that start with "#"; a command that raises SwitchCoder is
\* reported as only supported in interactive mode, and every later command of the
\* file is still run.
RECURSIVE CommandsOf(_)
CommandsOf(lines) ==
    IF lines = <<>> THEN <<>>
    ELSE LET c == StripLine(Head(lines))
         IN (IF c = <<>> \/ Head(c) = "#" THEN <<>> ELSE <<c>>) \o CommandsOf(Tail(lines))

Loaded == SelectSeq(run_log, LAMBDA e : e.line > 0)

C22_LoadRunsEveryCommand ==
    run_pc \in {"loaded", "raised"}
        => /\ [k \in 1..Len(Loaded) |-> Loaded[k].inp] = CommandsOf(load_file)
           /\ \A k \in 1..Len(Loaded) :
                 Loaded[k].end = "SwitchCoder"
                     => /\ Loaded[k].said = "only supported in interactive mode"
                        /\ Loaded[k].raised = "none"

\* C24 as stated: a handler runs iff the first word of the input is a prefix of
\* exactly one command or is a command name; otherwise the error is "Ambiguous
\* command" when several commands match and "Invalid command" when none does.
C24_HandlerIffMatch ==
    \A e \in RunLog :
        /\ e.command # <<>> <=> (Cardinality(PrefixOf(e.inp)) = 1 \/ NamesCommand(e.inp))
        /\ e.command = <<>>
              => e.error = IF PrefixOf(e.inp) = {} THEN "Invalid command"
                           ELSE "Ambiguous command"

\* C24, amended: the same for an input that does not start with "!"; an input
\* that starts with "!" runs the handler of /run and no error is reported.  An
\* exact match wins over the commands it is a prefix of.
C24_HandlerIffMatchOrShell ==
    \A e \in RunLog :
        IF Head(e.inp) = "!"
        THEN e.command = <<"/", "r", "u", "n">> /\ e.error = "none"
        ELSE /\ e.command # <<>>
                  <=> (Cardinality(PrefixOf(e.inp)) = 1 \/ NamesCommand(e.inp))
             /\ NamesCommand(e.inp) => e.command = Head(SplitWords(Strip(e.inp), <<>>))
             /\ e.command # <<>> => e.command \in PrefixOf(e.inp) /\ e.error = "none"
             /\ e.command = <<>>
                   => e.error = IF PrefixOf(e.inp) = {} THEN "Invalid command"
                                ELSE "Ambiguous command"

\* /code was run although it is also a prefix of /code-from-plan
C24_ExactMatchWon ==
    \E e \in RunLog :
        /\ e.command = <<"/", "c", "o", "d", "e">>
        /\ Cardinality(PrefixOf(e.inp)) > 1
        /\ e.end = "returned"

-----------------------------------------------------------------------------
(* GitRepo.refresh_aider_ignore, ignored_file, ignored_file_raw *)

\* GitRepo.refresh_aider_ignore() at time t: the fields afterwards
refresh_aider_ignore(t, file, last_check, ts, spec, cache) ==
    IF t - last_check < 1
    THEN [last_check |-> last_check, ts |-> ts, spec |-> spec, cache |-> cache]
    ELSE IF ~file.exists
    THEN [last_check |-> t, ts |-> ts, spec |-> spec, cache |-> cache]
    ELSE IF file.mtime # ts
    THEN [last_check |-> t, ts |-> file.mtime, spec |-> file.lines, cache |-> <<>>]
    ELSE [last_check |-> t, ts |-> ts, spec |-> spec, cache |-> cache]

\* GitRepo.ignored_file_raw(fname), subtree_only not set
ignored_file_raw(fname, file, spec) ==
    IF ~file.exists THEN FALSE ELSE fname \in spec

\* GitRepo.ignored_file(fname) after the refresh: the result and the cache
ignored_file(fname, file, spec, cache) ==
    IF fname \in DOMAIN cache
    THEN [result |-> cache[fname], cache |-> cache]
    ELSE LET result == ignored_file_raw(fname, file, spec)
         IN [result |-> result,
             cache |-> [g \in DOMAIN cache \cup {fname} |->
                           IF g = fname THEN result ELSE cache[g]]]

IgnoreFrame == UNCHANGED <<chatVars, planVars, affVars, gitVars, sessVars, jiraVars, envVars,
                           prVars, trkVars, cleanVars, runVars>>

\* A second passes
Tick ==
    /\ now < MaxTime
    /\ now' = now + 1
    /\ UNCHANGED <<aiderignore, aider_ignore_last_check, aider_ignore_ts, aider_ignore_spec,
                   ignore_file_cache, ignored_answer>>
    /\ IgnoreFrame

\* aiderignore.write_text(...): every write gives the file an mtime it never had
WriteAiderignore ==
    /\ aiderignore.mtime < MaxWrites
    /\ \E lines \in SUBSET GitFiles :
          aiderignore' = [exists |-> TRUE, mtime |-> aiderignore.mtime + 1, lines |-> lines]
    /\ UNCHANGED <<now, aider_ignore_last_check, aider_ignore_ts, aider_ignore_spec,
                   ignore_file_cache, ignored_answer>>
    /\ IgnoreFrame

\* The file is deleted
DeleteAiderignore ==
    /\ aiderignore.exists
    /\ aiderignore' = [aiderignore EXCEPT !.exists = FALSE, !.lines = {}]
    /\ UNCHANGED <<now, aider_ignore_last_check, aider_ignore_ts, aider_ignore_spec,
                   ignore_file_cache, ignored_answer>>
    /\ IgnoreFrame

\* git_repo.ignored_file(fname)
IgnoredFile ==
    /\ \E fname \in GitFiles :
          LET r == refresh_aider_ignore(now, aiderignore, aider_ignore_last_check,
                                        aider_ignore_ts, aider_ignore_spec,
                                        ignore_file_cache)
              a == ignored_file(fname, aiderignore, r.spec, r.cache)
          IN /\ aider_ignore_last_check' = r.last_check
             /\ aider_ignore_ts' = r.ts
             /\ aider_ignore_spec' = r.spec
             /\ ignore_file_cache' = a.cache
             /\ ignored_answer' = [given |-> TRUE, fname |-> fname, result |-> a.result,
                                   raw |-> ignored_file_raw(fname, aiderignore,
                                                            aiderignore.lines),
                                   waited |-> now - aider_ignore_last_check >= 1]
    /\ UNCHANGED <<now, aiderignore>>
    /\ IgnoreFrame

\* A repository made with an aiderignore path; the file may be there already
InitIgnore ==
    /\ ChatIdle
    /\ PlanIdle
    /\ AffIdle
    /\ GitIdle
    /\ SessIdle
    /\ JiraIdle
    /\ EnvIdle
    /\ PrIdle
    /\ TrackedIdle
    /\ CleanIdle
    /\ RunIdle
    /\ now = 1
    /\ aiderignore \in {NoAiderignore} \cup
                       {[exists |-> TRUE, mtime |-> 1, lines |-> l] : l \in SUBSET GitFiles}
    /\ aider_ignore_last_check = 0
    /\ aider_ignore_ts = 0
    /\ aider_ignore_spec = {}
    /\ ignore_file_cache = <<>>
    /\ ignored_answer = NotAsked

NextIgnore ==
    \/ Tick
    \/ WriteAiderignore
    \/ DeleteAiderignore
    \/ IgnoredFile

SpecIgnore == InitIgnore /\ [][NextIgnore]_vars

-----------------------------------------------------------------------------
(* Claims about the aiderignore file *)

\* C26: when at least one second has passed since the previous refresh check,
\* ignored_file(f) returns what ignored_file_raw(f) returns for the aiderignore
\* file as it is now, after the file was edited and after it was deleted: no
\* cached result of an outdated file is served.
C26_IgnoredFileIsCurrent ==
    (ignored_answer.given /\ ignored_answer.waited)
        => ignored_answer.result = ignored_answer.raw

====
